---- MODULE Spec2Model ----
(***************************************************************************)
(* Model of the cost calculation engine of HealthPlanCompare               *)
(* (src/src/utils/DataManager.js, class CostCalculator).                   *)
(*                                                                         *)
(* Numbers.  A JavaScript number x is modelled by the integer 100 * x      *)
(* (hundredths), so that $150 is 15000 and a coinsurance rate of 0.2 is    *)
(* 20.  Days, counts, months and tiers are plain integers.  A product of   *)
(* two modelled numbers is (a * b) \div 100; the value sets below keep     *)
(* every product exact (whole dollars times hundredths).                   *)
(*                                                                         *)
(* An `undefined` property is modelled by the field being absent from the  *)
(* record, or by 0 where the code only reads it through `|| fallback`.     *)
(***************************************************************************)
EXTENDS Integers, Sequences, FiniteSets, TLC

VARIABLES
    rawPlan,        \* the raw plan handed to validateAndNormalizePlan
    rawFamily,      \* the raw familyData handed to validateFamilyData
    plan,           \* applyPlanRules: the validated plan being applied
    members,        \* validated family members of the calculation
    serviceCosts,   \* the service cost table of the calculation
    usageTable,     \* the usage timeline (generateFamilyUsageTimeline)
    familyState,    \* applyPlanRules: family-wide accumulators
    memberStates,   \* applyPlanRules: per-member accumulators
    progression,    \* applyPlanRules: rows pushed so far
    eventResult,    \* applyPlanRules: result of processEventUnderPlan for the last event
    result,         \* generatePlanResult's return value
    pc,             \* position in the calculation
    callPlans,      \* calculateAll: the plans argument of the last call
    callFamily,     \* calculateAll: the familyData argument of the last call
    callFaults,     \* the plans whose calculation threw in the last call, and where
    outcome,        \* calculateAll: what the last call returned or threw
    lastUsageTable,         \* this.lastUsageTable
    lastPlanProgressions,   \* this.lastPlanProgressions
    isCalculating,          \* App: this.isCalculating
    calculationCount,       \* App: this.calculationCount
    planManagerPlans,       \* PlanManager: this.plans
    familyManagerMembers,   \* FamilyManager: this.familyData.members
    serviceCostManagerCosts, \* ServiceCostManager: this.serviceCosts
    displayed,              \* ResultsManager: what the results tab shows
    recalcPc,               \* App.recalculate: position of the invocation in progress
    now,                    \* rateLimiter: Date.now(), in milliseconds
    memoryStore,            \* rateLimiter: the Map memoryStore of each function instance
    timers,                 \* rateLimiter: the pending setTimeout deletions
    reachedLLM,             \* analyze-pdf: calls of callLLMAPI per client and hourly window
    responses,              \* analyze-pdf: responses sent, and the status of the latest
    inFlight,               \* analyze-pdf: handlers suspended in await callLLMAPI
    emitterEvents,          \* EventEmitter: this.events[event] of the one event
    callStack,              \* EventEmitter: the emit and wrapper calls in progress
    invocations,            \* EventEmitter: how often each callback has been called
    emitCount,              \* EventEmitter: top-level emit calls made so far
    csvRows,                \* generateProgressionCSV: the data rows pushed so far
    exportPc                \* exportCalculationWorksheets: position of the export

engineVars == <<rawPlan, rawFamily, plan, members, serviceCosts, usageTable, familyState,
                memberStates, progression, eventResult, result, pc>>

calcVars == <<callPlans, callFamily, callFaults, outcome, lastUsageTable,
              lastPlanProgressions>>

appVars == <<isCalculating, calculationCount, planManagerPlans, familyManagerMembers,
             serviceCostManagerCosts, displayed, recalcPc>>

serverVars == <<now, memoryStore, timers, reachedLLM, responses, inFlight>>

emitterVars == <<emitterEvents, callStack, invocations, emitCount>>

exportVars == <<csvRows, exportPc>>

siteVars == <<serverVars, emitterVars, exportVars>>

vars == <<engineVars, calcVars, appVars, siteVars>>

----------------------------------------------------------------------------
(* Bounds of the model *)

MaxVisits == 2

\* invocations of App.recalculate in one run of the application
MaxInvocations == 52

----------------------------------------------------------------------------
(* JavaScript arithmetic on modelled numbers *)

Dollars(n) == n * 100

Min(a, b) == IF a <= b THEN a ELSE b

Max(a, b) == IF a >= b THEN a ELSE b

\* a || b on numbers: 0 (and undefined, modelled as 0) is falsy
Or(a, b) == IF a # 0 THEN a ELSE b

\* a * b where both are modelled numbers
Mul(a, b) == (a * b) \div 100

\* Math.floor(day / 30.4), day a plain integer
MonthOf(day) == (day * 10) \div 304

\* Array.prototype.sort with comparator (a, b) => a.day - b.day: a stable
\* sort (ES2019), here as a stable insertion sort
RECURSIVE InsertByDay(_, _)
InsertByDay(sorted, e) ==
    IF sorted = <<>> THEN <<e>>
    ELSE IF Head(sorted).day <= e.day
         THEN <<Head(sorted)>> \o InsertByDay(Tail(sorted), e)
         ELSE <<e>> \o sorted

\* a variant that leaves the events in the order they were pushed
PushOrder(events) == events

RECURSIVE SortByDay(_)
SortByDay(events) ==
    IF events = <<>> THEN <<>>
    ELSE InsertByDay(SortByDay(SubSeq(events, 1, Len(events) - 1)),
                     events[Len(events)])

RECURSIVE Concat(_)
Concat(seqs) ==
    IF seqs = <<>> THEN <<>> ELSE Head(seqs) \o Concat(Tail(seqs))

RECURSIVE SumSeq(_)
SumSeq(s) == IF s = <<>> THEN 0 ELSE Head(s) + SumSeq(Tail(s))

----------------------------------------------------------------------------
(* Phase 1: generateFamilyUsageTimeline *)

\* annualServices of one member: service type, count field, cost table key
AnnualServices(member) ==
    << [type |-> "primaryVisit",    count |-> member.primaryVisits,    costKey |-> "primaryVisit"],
       [type |-> "specialistVisit", count |-> member.specialistVisits, costKey |-> "specialistVisit"],
       [type |-> "therapySession",  count |-> member.therapyVisits,    costKey |-> "therapySession"],
       [type |-> "labWork",         count |-> member.labWork,          costKey |-> "labWork"],
       [type |-> "imaging",         count |-> member.imaging,          costKey |-> "basicImaging"],
       [type |-> "physicalTherapy", count |-> member.physicalTherapy,  costKey |-> "physicalTherapy"] >>

\* const daysBetweenEvents = Math.floor(365 / service.count)
DaysBetweenEvents(count) == 365 \div count

\* Math.floor(daysBetweenEvents * i + daysBetweenEvents / 2)
ServiceDayOfYear(count, i) ==
    DaysBetweenEvents(count) * i + DaysBetweenEvents(count) \div 2

\* a variant that counts the days of the year from 0
MedicationDayFromZero(month) == month * 30

\* month * 30 + 1
MedicationDayOfYear(month) == month * 30 + 1

\* the event pushed for occurrence i of a service; grossCost: service.cost is
\* undefined (field absent) when the table lacks the key
ServiceEvent(member, service, i, costs) ==
    [day |-> ServiceDayOfYear(service.count, i),
     memberId |-> member.id,
     eventType |-> "medical",
     serviceType |-> service.type,
     tier |-> 0]
    @@ (IF service.costKey \in DOMAIN costs
        THEN [grossCost |-> costs[service.costKey]]
        ELSE <<>>)

ServiceEvents(member, service, costs) ==
    IF service.count > 0
    THEN [k \in 1..service.count |-> ServiceEvent(member, service, k - 1, costs)]
    ELSE <<>>

\* the 12 monthly events of one medication; none when monthlyCost is 0 or less
MedicationEvents(member, medication) ==
    IF medication.monthlyCost = 0 \/ medication.monthlyCost <= 0
    THEN <<>>
    ELSE [k \in 1..12 |->
            [day |-> MedicationDayOfYear(k - 1),
             memberId |-> member.id,
             eventType |-> "medication",
             serviceType |-> "medication",
             tier |-> Or(medication.tier, 1),
             grossCost |-> medication.monthlyCost]]

MemberEvents(member, costs) ==
    Concat([s \in 1..6 |-> ServiceEvents(member, AnnualServices(member)[s], costs)])
    \o Concat([m \in 1..Len(member.medications) |->
                  MedicationEvents(member, member.medications[m])])

GenerateFamilyUsageTimeline(ms, costs) ==
    SortByDay(Concat([m \in 1..Len(ms) |-> MemberEvents(ms[m], costs)]))

----------------------------------------------------------------------------
(* Phase 2: applyPlanRules *)

\* a variant in which no service has a copay
NoCopayForService(p, serviceType) == 0

\* getCopayForService: copayMap[serviceType] || 0
GetCopayForService(p, serviceType) ==
    CASE serviceType = "primaryVisit"    -> Or(p.primaryCopay, 0)
      [] serviceType = "specialistVisit" -> Or(p.specialistCopay, 0)
      [] serviceType = "therapySession"  -> Or(Or(p.mentalHealthCopay, p.primaryCopay), 0)
      [] OTHER -> 0

\* a variant that charges what is left after the deductible in full
PostDeductibleCostInFull(p, serviceType, cost) == cost

\* calculatePostDeductibleCost: the copay of the service, or else coinsurance
CalculatePostDeductibleCost(p, serviceType, cost) ==
    LET copay == GetCopayForService(p, serviceType)
    IN  IF copay # 0 /\ copay > 0
        THEN Min(copay, cost)
        ELSE Mul(cost, Or(p.coinsurance, 0))

\* a variant in which no tier costs anything
TierCostNothing(p, tier) == 0

\* plan[tierKeys[tier] || 'tier1DrugCost'] || 0
TierCostOf(p, tier) ==
    CASE tier = 2 -> Or(p.tier2DrugCost, 0)
      [] tier = 3 -> Or(p.tier3DrugCost, 0)
      [] tier = 4 -> Or(p.specialtyDrugCost, 0)
      [] OTHER    -> Or(p.tier1DrugCost, 0)

\* plan[`${tierCostKey}Type`]
TierCostTypeOf(p, tier) ==
    CASE tier = 2 -> p.tier2DrugCostType
      [] tier = 3 -> p.tier3DrugCostType
      [] tier = 4 -> p.specialtyDrugCostType
      [] OTHER    -> p.tier1DrugCostType

CalculateTierCost(p, tier, cost) ==
    IF cost = 0 THEN 0
    ELSE LET tierCost == TierCostOf(p, tier)
             tierCostType == TierCostTypeOf(p, tier)
         IN  IF tierCostType = "coinsurance"
             THEN Mul(cost, IF tierCost > 100 THEN tierCost \div 100 ELSE tierCost)
             ELSE IF tierCostType = "copay"
             THEN Min(tierCost, cost)
             ELSE IF tierCost < 100
                  THEN Mul(cost, tierCost)
                  ELSE Min(tierCost, cost)

\* plan.familyDeductible || plan.individualDeductible * 2 || 0
FamilyDeductibleOf(p) == Or(Or(p.familyDeductible, p.individualDeductible * 2), 0)

\* plan.individualDeductible || 0
IndividualDeductibleOf(p) == Or(p.individualDeductible, 0)

\* a variant that forgets the family pool
EffectiveDeductibleIndividualOnly(remainingFamilyDeductible, remainingIndividualDeductible) ==
    remainingIndividualDeductible

\* Math.min(remainingFamilyDeductible, remainingIndividualDeductible)
EffectiveDeductible(remainingFamilyDeductible, remainingIndividualDeductible) ==
    Min(remainingFamilyDeductible, remainingIndividualDeductible)

ProcessMedicalEventUnderPlan(p, usageEvent, fs, ms) ==
    LET remainingFamilyDeductible == Max(0, FamilyDeductibleOf(p) - fs.deductibleUsed)
        remainingIndividualDeductible == Max(0, IndividualDeductibleOf(p) - ms.deductibleUsed)
        effectiveDeductible ==
            EffectiveDeductible(remainingFamilyDeductible, remainingIndividualDeductible)
        appliedToDeductible == Min(usageEvent.grossCost, effectiveDeductible)
        remainingCost == usageEvent.grossCost - appliedToDeductible
    IN  IF effectiveDeductible > 0
        THEN [memberCost |->
                 appliedToDeductible
                 + (IF remainingCost > 0
                    THEN CalculatePostDeductibleCost(p, usageEvent.serviceType, remainingCost)
                    ELSE 0),
              appliedToFamilyDeductible |-> appliedToDeductible,
              appliedToIndividualDeductible |-> appliedToDeductible,
              appliedToRxDeductible |-> 0]
        ELSE [memberCost |->
                 CalculatePostDeductibleCost(p, usageEvent.serviceType, usageEvent.grossCost),
              appliedToFamilyDeductible |-> 0,
              appliedToIndividualDeductible |-> 0,
              appliedToRxDeductible |-> 0]

\* a variant that sends every medication to the unified medical deductible
ProcessMedicationUnderMedicalDeductible(p, usageEvent, fs, ms) ==
    ProcessMedicalEventUnderPlan(p, usageEvent, fs, ms)

ProcessMedicationEventUnderPlan(p, usageEvent, fs, ms) ==
    LET rxDeductible == Or(p.rxDeductible, 0)
        hasSeperateRxDeductible == rxDeductible > 0
        remainingRxDeductible == Max(0, rxDeductible - fs.rxDeductibleUsed)
        remainingFamilyDeductible == Max(0, FamilyDeductibleOf(p) - fs.deductibleUsed)
        remainingIndividualDeductible == Max(0, IndividualDeductibleOf(p) - ms.deductibleUsed)
        effectiveDeductible ==
            EffectiveDeductible(remainingFamilyDeductible, remainingIndividualDeductible)
        pool == IF hasSeperateRxDeductible THEN remainingRxDeductible ELSE effectiveDeductible
        appliedToDeductible == Min(usageEvent.grossCost, pool)
        remainingCost == usageEvent.grossCost - appliedToDeductible
        memberCost ==
            IF pool > 0 /\ usageEvent.grossCost > 0
            THEN appliedToDeductible
                 + (IF remainingCost > 0
                    THEN CalculateTierCost(p, usageEvent.tier, remainingCost)
                    ELSE 0)
            ELSE CalculateTierCost(p, usageEvent.tier, usageEvent.grossCost)
        applied == IF pool > 0 /\ usageEvent.grossCost > 0 THEN appliedToDeductible ELSE 0
    IN  [memberCost |-> memberCost,
         appliedToFamilyDeductible |-> IF hasSeperateRxDeductible THEN 0 ELSE applied,
         appliedToIndividualDeductible |-> IF hasSeperateRxDeductible THEN 0 ELSE applied,
         appliedToRxDeductible |-> IF hasSeperateRxDeductible THEN applied ELSE 0]

\* a variant that applies the deductible portion to the family pool only
ProcessEventForFamilyOnly(p, usageEvent, fs, mss) ==
    [ProcessMedicalEventUnderPlan(p, usageEvent, fs, mss[usageEvent.memberId])
        EXCEPT !.appliedToIndividualDeductible = 0]

ProcessEventUnderPlan(p, usageEvent, fs, mss) ==
    IF usageEvent.eventType = "medical"
    THEN ProcessMedicalEventUnderPlan(p, usageEvent, fs, mss[usageEvent.memberId])
    ELSE IF usageEvent.eventType = "medication"
    THEN ProcessMedicationEventUnderPlan(p, usageEvent, fs, mss[usageEvent.memberId])
    ELSE [memberCost |-> 0, appliedToFamilyDeductible |-> 0,
          appliedToIndividualDeductible |-> 0, appliedToRxDeductible |-> 0]

\* a variant that sees no children
NeverHasChildren(ms) == FALSE

\* members.some(m => m.relationship === 'child' || m.age < 18)
HasChildren(ms) ==
    \E i \in 1..Len(ms) : ms[i].relationship = "child" \/ ms[i].age < 18

DeterminePremiumTier(p, ms) ==
    IF Len(ms) = 1
    THEN [coverageType |-> "individual", monthlyPremium |-> Or(p.monthlyPremium, 0)]
    ELSE IF Len(ms) = 2 /\ ~HasChildren(ms) /\ p.spousePremium # 0
    THEN [coverageType |-> "employee+spouse", monthlyPremium |-> p.spousePremium]
    ELSE [coverageType |-> "family",
          monthlyPremium |-> Or(Or(p.familyPremium, p.monthlyPremium), 0)]

\* a variant that forgets the individual cap
UncappedIndividualOOP(p, newIndividualOOP) == newIndividualOOP

\* const individualOOPMax = plan.individualOOPMax || Infinity;
\* Math.min(newIndividualOOP, individualOOPMax)
CappedIndividualOOP(p, newIndividualOOP) ==
    IF p.individualOOPMax # 0
    THEN Min(newIndividualOOP, p.individualOOPMax)
    ELSE newIndividualOOP

\* plan.familyOOPMax || plan.individualOOPMax * 2 || Infinity; 0 stands for Infinity
FamilyOOPMaxOf(p) == Or(p.familyOOPMax, p.individualOOPMax * 2)

\* a variant that forgets the family cap
UncappedFamilyOOP(p, oopUsed) == oopUsed

\* Math.min(familyState.oopUsed, familyOOPMax)
CappedFamilyOOP(p, oopUsed) ==
    IF FamilyOOPMaxOf(p) # 0 THEN Min(oopUsed, FamilyOOPMaxOf(p)) ELSE oopUsed

\* monthlyPremium * (Math.floor(usageEvent.day / 30.4) + 1)
CumulativePremium(monthlyPremium, day) == monthlyPremium * (MonthOf(day) + 1)

\* memberStates[member.id] = { deductibleUsed: 0, oopUsed: 0 } for every member
InitialMemberStates(ms) ==
    [id \in {ms[i].id : i \in 1..Len(ms)} |-> [deductibleUsed |-> 0, oopUsed |-> 0]]

InitialFamilyState == [deductibleUsed |-> 0, rxDeductibleUsed |-> 0, oopUsed |-> 0]

\* one iteration of the loop of applyPlanRules: the states after the event and
\* the progression row pushed
ApplyEvent(p, ms, usageEvent, fs, mss) ==
    LET er == ProcessEventUnderPlan(p, usageEvent, fs, mss)
        mid == usageEvent.memberId
        premium == DeterminePremiumTier(p, ms)
        newIndividualOOP == mss[mid].oopUsed + er.memberCost
        cappedIndividualOOP == CappedIndividualOOP(p, newIndividualOOP)
        actualMemberCost == cappedIndividualOOP - mss[mid].oopUsed
        mss2 == [mss EXCEPT ![mid] =
                    [deductibleUsed |-> @.deductibleUsed + er.appliedToIndividualDeductible,
                     oopUsed |-> cappedIndividualOOP]]
        fs2 == [deductibleUsed |-> fs.deductibleUsed + er.appliedToFamilyDeductible,
                rxDeductibleUsed |-> fs.rxDeductibleUsed + er.appliedToRxDeductible,
                oopUsed |-> fs.oopUsed + actualMemberCost]
        cumulativePremium == CumulativePremium(premium.monthlyPremium, usageEvent.day)
        cappedFamilyOOP == CappedFamilyOOP(p, fs2.oopUsed)
    IN  [familyState |-> fs2,
         memberStates |-> mss2,
         eventResult |-> er,
         row |-> [day |-> usageEvent.day,
                  memberId |-> usageEvent.memberId,
                  eventType |-> usageEvent.eventType,
                  serviceType |-> usageEvent.serviceType,
                  tier |-> usageEvent.tier,
                  grossCost |-> usageEvent.grossCost,
                  eventCost |-> actualMemberCost,
                  cumulativePremium |-> cumulativePremium,
                  cumulativeOOP |-> cappedFamilyOOP,
                  cumulativeTotal |-> cumulativePremium + cappedFamilyOOP,
                  familyDeductibleUsed |-> fs2.deductibleUsed,
                  familyRxDeductibleUsed |-> fs2.rxDeductibleUsed,
                  familyOOPUsed |-> fs2.oopUsed,
                  individualDeductibleUsed |-> mss2[mid].deductibleUsed,
                  individualOOPUsed |-> mss2[mid].oopUsed,
                  planId |-> p.id,
                  monthlyPremium |-> premium.monthlyPremium,
                  coverageType |-> premium.coverageType]]

\* the whole loop of applyPlanRules, from the states fs, mss
RECURSIVE ApplyFrom(_, _, _, _, _)
ApplyFrom(p, ms, table, fs, mss) ==
    IF table = <<>> THEN <<>>
    ELSE LET step == ApplyEvent(p, ms, Head(table), fs, mss)
         IN  <<step.row>> \o ApplyFrom(p, ms, Tail(table), step.familyState, step.memberStates)

\* a variant that drops the first event of the timeline
ApplyPlanRulesSkippingFirst(p, table, ms) ==
    IF table = <<>> THEN <<>>
    ELSE ApplyFrom(p, ms, Tail(table), InitialFamilyState, InitialMemberStates(ms))

ApplyPlanRules(p, table, ms) ==
    ApplyFrom(p, ms, table, InitialFamilyState, InitialMemberStates(ms))

----------------------------------------------------------------------------
(* Phase 3: generatePlanResult, createErrorResult *)

CreateErrorResult(p, message) ==
    [planId |-> p.id,
     error |-> message,
     annualPremium |-> Or(p.monthlyPremium, 0) * 12,
     familyTotals |-> [totalWithPremiums |-> 0, totalOutOfPocket |-> 0,
                       medicalCosts |-> 0, rxCosts |-> 0],
     comparison |-> [isBest |-> FALSE, isWorst |-> TRUE,
                     savingsVsBest |-> "Infinity", rank |-> 999]]

\* sum of eventCost over the rows of one event type
CostsOfType(rows, eventType) ==
    LET OfType(r) == r.eventType = eventType
        sel == SelectSeq(rows, OfType)
    IN  SumSeq([i \in 1..Len(sel) |-> sel[i].eventCost])

MemberResult(member, prog) ==
    LET OfMember(r) == r.memberId = member.id
        memberEvents == SelectSeq(prog, OfMember)
    IN  [memberId |-> member.id,
         medicalCosts |-> CostsOfType(memberEvents, "medical"),
         rxCosts |-> CostsOfType(memberEvents, "medication"),
         totalCosts |-> CostsOfType(memberEvents, "medical")
                        + CostsOfType(memberEvents, "medication")]

\* generateMonthlyAccumulation: for each of the 12 months the cumulativeOOP of
\* the last row whose Math.floor(row.day / 30.4) is that month (0 when there
\* is none) and the number of such rows
GenerateMonthlyAccumulation(prog) ==
    [i \in 1..12 |->
        LET inMonth == {k \in 1..Len(prog) : MonthOf(prog[k].day) = i - 1}
        IN  [month |-> i,
             totalCost |-> IF inMonth = {} THEN 0
                           ELSE prog[CHOOSE k \in inMonth : \A j \in inMonth : j <= k]
                                    .cumulativeOOP,
             events |-> Cardinality(inMonth)]]

GeneratePlanResult(p, prog, ms) ==
    IF Len(prog) = 0
    THEN CreateErrorResult(p, "No progression data")
    ELSE LET finalRow == prog[Len(prog)]
         IN  [planId |-> p.id,
              annualPremium |-> finalRow.monthlyPremium * 12,
              memberResults |-> [id \in {ms[i].id : i \in 1..Len(ms)} |->
                                    MemberResult(CHOOSE m \in {ms[i] : i \in 1..Len(ms)} :
                                                     m.id = id, prog)],
              familyTotals |-> [medicalCosts |-> CostsOfType(prog, "medical"),
                                rxCosts |-> CostsOfType(prog, "medication"),
                                totalOutOfPocket |-> finalRow.cumulativeOOP,
                                totalWithPremiums |-> finalRow.cumulativeTotal],
              monthlyAccumulation |-> GenerateMonthlyAccumulation(prog),
              coverageType |-> finalRow.coverageType,
              monthlyPremium |-> finalRow.monthlyPremium]

----------------------------------------------------------------------------
(* Raw (unvalidated) JavaScript values.  A raw value is a record with a type *)
(* tag t: "undefined", "null", "boolean", "number" (field n) or "string"     *)
(* (field s, the sequence of its characters), or "object" (field medical).   *)
(* A property that is not set is a field absent from the raw record.         *)

Undefined == [t |-> "undefined"]

Null == [t |-> "null"]

Num(n) == [t |-> "number", n |-> n]

Str(s) == [t |-> "string", s |-> s]

\* obj[field], undefined when the property is not set
Get(obj, field) == IF field \in DOMAIN obj THEN obj[field] ELSE Undefined

Digits == <<"0", "1", "2", "3", "4", "5", "6", "7", "8", "9">>

IsDigit(c) == \E d \in 1..10 : Digits[d] = c

DigitValue(c) == (CHOOSE d \in 1..10 : Digits[d] = c) - 1

\* the longest prefix of s made of digits
RECURSIVE DigitPrefix(_)
DigitPrefix(s) ==
    IF s = <<>> \/ ~IsDigit(Head(s)) THEN <<>>
    ELSE <<Head(s)>> \o DigitPrefix(Tail(s))

RECURSIVE DigitsValue(_, _)
DigitsValue(ds, acc) ==
    IF ds = <<>> THEN acc ELSE DigitsValue(Tail(ds), acc * 10 + DigitValue(Head(ds)))

\* the integer a string starts with (optional '-', then digits), as parseInt
\* and parseFloat read it: anything after the digits is ignored, and a string
\* that does not start with a number is NaN.  Strings have no '.' here.
ParsePrefix(s) ==
    LET neg == s # <<>> /\ Head(s) = "-"
        body == IF neg THEN Tail(s) ELSE s
        ds == DigitPrefix(body)
    IN  IF ds = <<>> THEN [nan |-> TRUE, n |-> 0]
        ELSE [nan |-> FALSE, n |-> (IF neg THEN -1 ELSE 1) * DigitsValue(ds, 0)]

\* parseFloat(v), the result a modelled number (hundredths)
ParseFloat(v) ==
    CASE v.t = "number" -> [nan |-> FALSE, n |-> v.n]
      [] v.t = "string" -> LET r == ParsePrefix(v.s)
                           IN  [nan |-> r.nan, n |-> Dollars(r.n)]
      [] OTHER -> [nan |-> TRUE, n |-> 0]

\* parseInt(v), the result a plain integer (counts, ages, tiers)
ParseInt(v) ==
    CASE v.t = "number" -> [nan |-> FALSE, n |-> v.n]
      [] v.t = "string" -> ParsePrefix(v.s)
      [] OTHER -> [nan |-> TRUE, n |-> 0]

\* x || fallback for a parse result: NaN and 0 are falsy
OrElse(r, fallback) == IF r.nan \/ r.n = 0 THEN fallback ELSE r.n

----------------------------------------------------------------------------
(* validateAndNormalizePlan *)

Thrown(message) == [threw |-> TRUE, error |-> message]

Returned(value) == [threw |-> FALSE, value |-> value]

NumericFields ==
    << "monthlyPremium", "spousePremium", "familyPremium",
       "individualDeductible", "familyDeductible",
       "individualOOPMax", "familyOOPMax",
       "primaryCopay", "specialistCopay",
       "rxDeductible", "tier1DrugCost", "tier2DrugCost",
       "tier3DrugCost", "specialtyDrugCost" >>

TypeFields ==
    << "tier1DrugCostType", "tier2DrugCostType", "tier3DrugCostType",
       "specialtyDrugCostType" >>

\* plan[field] !== undefined && plan[field] !== null && plan[field] !== ''
IsSet(obj, field) ==
    LET v == Get(obj, field)
    IN  /\ v.t # "undefined"
        /\ v.t # "null"
        /\ ~(v.t = "string" /\ v.s = <<>>)

\* a variant that accepts every value of a numeric field
NumericNeverInvalid(raw, field) == FALSE

\* isNaN(parseFloat(plan[field])) for a field that is set
InvalidNumeric(raw, field) == IsSet(raw, field) /\ ParseFloat(raw[field]).nan

\* normalized[field]: the parsed value (a negative one is only warned about),
\* 0 when the field is not set
NormalizedNumeric(raw, field) ==
    IF IsSet(raw, field) THEN ParseFloat(raw[field]).n ELSE 0

\* the coinsurance of the normalized plan, or a throw
NormalizedCoinsurance(raw) ==
    LET c == Get(raw, "coinsurance")
    IN  IF c.t = "undefined" \/ c.t = "null" THEN Returned(0)
        ELSE IF c.t = "number" THEN Returned(c.n)
        ELSE IF c.t = "object" /\ c.medical.t # "undefined"
        THEN IF ParseFloat(c.medical).nan
             THEN Thrown("Invalid coinsurance.medical value")
             ELSE Returned(ParseFloat(c.medical).n)
        ELSE Thrown("Invalid coinsurance structure")

\* a drug cost type is kept when set; the property is undefined otherwise
NormalizedType(raw, field) ==
    IF field \in DOMAIN raw /\ raw[field] # "" THEN raw[field] ELSE "undefined"

\* the amount matched by /prescription drugs - \$(\d+)/i in plan.networkType
\* (a raw networkType is the record [rxAmount |-> digits] when it matches);
\* it replaces a missing or zero rxDeductible
ExtractedRxDeductible(raw, rxDeductible) ==
    IF rxDeductible = 0 /\ "networkType" \in DOMAIN raw
                        /\ "rxAmount" \in DOMAIN raw.networkType
    THEN ParseFloat(Str(raw.networkType.rxAmount)).n
    ELSE rxDeductible

ValidateAndNormalizePlan(raw) ==
    IF "id" \notin DOMAIN raw \/ raw.id = ""
    THEN Thrown("Plan missing required ID field")
    ELSE IF "name" \notin DOMAIN raw \/ raw.name = ""
    THEN Thrown("Plan missing required name field")
    ELSE IF \E i \in 1..Len(NumericFields) : InvalidNumeric(raw, NumericFields[i])
    THEN Thrown("Invalid numeric value")
    ELSE IF NormalizedCoinsurance(raw).threw
    THEN NormalizedCoinsurance(raw)
    ELSE Returned(
           [id |-> raw.id, name |-> raw.name, mentalHealthCopay |-> 0,
            coinsurance |-> NormalizedCoinsurance(raw).value]
           @@ [rxDeductible |->
                  ExtractedRxDeductible(raw, NormalizedNumeric(raw, "rxDeductible"))]
           @@ [f \in {NumericFields[i] : i \in 1..Len(NumericFields)} \ {"rxDeductible"}
                  |-> NormalizedNumeric(raw, f)]
           @@ [f \in {TypeFields[i] : i \in 1..Len(TypeFields)} |->
                  NormalizedType(raw, f)])

----------------------------------------------------------------------------
(* validateFamilyData *)

UsageFields ==
    << "primaryVisits", "specialistVisits", "therapyVisits", "labWork",
       "imaging", "physicalTherapy" >>

\* the member-level keys of the model that contain '[' and ']'
BracketKeys == {"medications[0].name", "medications[0].monthlyCost"}

\* Object.keys(member).filter(key => key.includes('[') && key.includes(']'))
SuspiciousFields(member) == DOMAIN member \cap BracketKeys

\* parseInt(member[field]); NaN or negative gives 0
ValidatedUsage(member, field) ==
    LET value == ParseInt(Get(member, field))
    IN  IF value.nan \/ value.n < 0 THEN 0 ELSE value.n

\* tier: parseInt(med.tier) || 1, set to 1 when outside 1..4
ValidatedTier(med) ==
    LET tier == OrElse(ParseInt(Get(med, "tier")), 1)
    IN  IF tier < 1 \/ tier > 4 THEN 1 ELSE tier

\* monthlyCost: parseFloat(med.monthlyCost) || 0, set to 0 when negative
ValidatedMonthlyCost(med) ==
    LET monthlyCost == OrElse(ParseFloat(Get(med, "monthlyCost")), 0)
    IN  IF monthlyCost < 0 THEN 0 ELSE monthlyCost

ValidatedMedication(med) ==
    [tier |-> ValidatedTier(med), monthlyCost |-> ValidatedMonthlyCost(med)]

ValidatedMember(member) ==
    [id |-> member.id,
     relationship |-> IF "relationship" \in DOMAIN member /\ member.relationship # ""
                      THEN member.relationship ELSE "other",
     age |-> OrElse(ParseInt(Get(member, "age")), 35),
     isActive |-> ~("isActive" \in DOMAIN member /\ member.isActive = FALSE),
     medications |-> IF "medications" \in DOMAIN member
                     THEN [k \in 1..Len(member.medications) |->
                              ValidatedMedication(member.medications[k])]
                     ELSE <<>>]
    @@ [f \in {UsageFields[i] : i \in 1..Len(UsageFields)} |-> ValidatedUsage(member, f)]

ValidateFamilyData(familyData) ==
    IF "members" \notin DOMAIN familyData
    THEN Thrown("Family data must have a members array")
    ELSE IF \E i \in 1..Len(familyData.members) :
               "id" \notin DOMAIN familyData.members[i] \/ familyData.members[i].id = ""
    THEN Thrown("Family member missing required ID")
    ELSE IF \E i \in 1..Len(familyData.members) :
               SuspiciousFields(familyData.members[i]) # {}
    THEN Thrown("CORRUPT DATA DETECTED")
    ELSE Returned(
           [members |-> [i \in 1..Len(familyData.members) |->
                            ValidatedMember(familyData.members[i])],
            serviceCosts |-> IF "serviceCosts" \in DOMAIN familyData
                             THEN familyData.serviceCosts
                             ELSE <<>>])

----------------------------------------------------------------------------
(* calculateAll and addComparisonMetrics *)

\* a JavaScript object with string keys: its keys in insertion order
\* (Object.keys) and its values
EmptyObject == [order |-> <<>>, byId |-> <<>>]

\* obj[key] = value
Put(obj, key, value) ==
    [order |-> IF key \in DOMAIN obj.byId THEN obj.order ELSE Append(obj.order, key),
     byId |-> [k \in DOMAIN obj.byId \cup {key} |->
                 IF k = key THEN value ELSE obj.byId[k]]]

\* an object field that was never assigned
UndefinedField == [undefined |-> TRUE]

\* where the calculation of plan id throws, "none" when it does not
FaultOf(faults, id) ==
    IF \E f \in faults : f.id = id
    THEN (CHOOSE f \in faults : f.id = id).at
    ELSE "none"

\* a variant whose catch block starts the results over
CatchPlanErrorDroppingResults(acc, p, message) ==
    [acc EXCEPT !.results = Put(EmptyObject, p.id, CreateErrorResult(p, message))]

\* catch (error) { results[plan.id] = this.createErrorResult(plan, error) }
CatchPlanError(acc, p, message) ==
    [acc EXCEPT !.results = Put(@, p.id, CreateErrorResult(p, message))]

\* the rest of the try block once applyPlanRules has returned prog:
\* planProgressions[plan.id] = prog; results[plan.id] = generatePlanResult(..)
StorePlanResult(acc, p, prog, ms, fault) ==
    IF fault = "generatePlanResult"
    THEN CatchPlanError([acc EXCEPT !.planProgressions = Put(@, p.id, prog)],
                        p, "fault in generatePlanResult")
    ELSE [acc EXCEPT !.planProgressions = Put(@, p.id, prog),
                     !.results = Put(@, p.id, GeneratePlanResult(p, prog, ms))]

\* the body of the loop over validatedPlans: try { applyPlanRules, ... }
\* catch { createErrorResult }
CalculatePlan(acc, p, table, ms, fault) ==
    IF fault = "applyPlanRules"
    THEN CatchPlanError(acc, p, "fault in applyPlanRules")
    ELSE StorePlanResult(acc, p, ApplyPlanRules(p, table, ms), ms, fault)

RECURSIVE CalculatePlans(_, _, _, _, _)
CalculatePlans(acc, validatedPlans, table, ms, faults) ==
    IF validatedPlans = <<>> THEN acc
    ELSE CalculatePlans(
             CalculatePlan(acc, Head(validatedPlans), table, ms,
                           FaultOf(faults, Head(validatedPlans).id)),
             Tail(validatedPlans), table, ms, faults)

TotalOf(results, id) == results.byId[id].familyTotals.totalWithPremiums

\* planIds.sort((a, b) => total(a) - total(b)): a stable sort
RECURSIVE InsertByTotal(_, _, _)
InsertByTotal(sorted, id, results) ==
    IF sorted = <<>> THEN <<id>>
    ELSE IF TotalOf(results, Head(sorted)) - TotalOf(results, id) <= 0
         THEN <<Head(sorted)>> \o InsertByTotal(Tail(sorted), id, results)
         ELSE <<id>> \o sorted

RECURSIVE SortByTotal(_, _)
SortByTotal(planIds, results) ==
    IF planIds = <<>> THEN <<>>
    ELSE InsertByTotal(SortByTotal(SubSeq(planIds, 1, Len(planIds) - 1), results),
                       planIds[Len(planIds)], results)

\* sortedByTotal.indexOf(planId)
IndexOf(seq, x) == (CHOOSE i \in 1..Len(seq) : seq[i] = x) - 1

\* a variant that ranks by the position in Object.keys(results)
RankOfInsertion(sortedByTotal, results, planId) == IndexOf(results.order, planId) + 1

\* rank: sortedByTotal.indexOf(planId) + 1
RankOf(sortedByTotal, results, planId) == IndexOf(sortedByTotal, planId) + 1

\* result.comparison of one plan (percentageMoreThanBest, a ratio that is
\* not read by the engine, is left out)
ComparisonOf(sortedByTotal, results, planId) ==
    [isBest |-> planId = sortedByTotal[1],
     isWorst |-> planId = sortedByTotal[Len(sortedByTotal)],
     savingsVsBest |-> TotalOf(results, planId) - TotalOf(results, sortedByTotal[1]),
     rank |-> RankOf(sortedByTotal, results, planId)]

\* every result gets its comparison, an error placeholder too
AddComparisonMetrics(results) ==
    IF results.order = <<>> THEN results
    ELSE LET sortedByTotal == SortByTotal(results.order, results)
         IN  [results EXCEPT !.byId =
                 [id \in DOMAIN results.byId |->
                     [f \in DOMAIN results.byId[id] \cup {"comparison"} |->
                         IF f = "comparison"
                         THEN ComparisonOf(sortedByTotal, results, id)
                         ELSE results.byId[id][f]]]]

\* the validation results of the plans, in order
ValidatedPlans(plans) == [i \in 1..Len(plans) |-> ValidateAndNormalizePlan(plans[i])]

\* the end of calculateAll: the comparison metrics, the stored table and
\* progressions, and the returned results
ReturnedRun(acc, table) ==
    [outcome |-> Returned(AddComparisonMetrics(acc.results)),
     lastUsageTable |-> [events |-> table],
     lastPlanProgressions |-> acc.planProgressions]

\* calculateAll after validation: the loop over the validated plans
CalculateValidated(validatedPlans, ms, table, faults) ==
    ReturnedRun(CalculatePlans([planProgressions |-> EmptyObject,
                                results |-> EmptyObject],
                               validatedPlans, table, ms, faults),
                table)

\* calculateAll(plans, familyData) on an object whose fields are lastTable and
\* lastProgressions: what it returns or throws, and the fields afterwards
CalculateAllRun(plans, familyData, faults, lastTable, lastProgressions) ==
    LET unchanged(thrown) ==
            [outcome |-> thrown, lastUsageTable |-> lastTable,
             lastPlanProgressions |-> lastProgressions]
        validated == ValidatedPlans(plans)
        family == ValidateFamilyData(familyData)
    IN  IF Len(plans) = 0
        THEN unchanged(Thrown("No plans provided for calculation"))
        ELSE IF "members" \notin DOMAIN familyData \/ Len(familyData.members) = 0
        THEN unchanged(Thrown("No family data provided for calculation"))
        ELSE IF \E i \in 1..Len(plans) : validated[i].threw
        THEN unchanged(validated[CHOOSE i \in 1..Len(plans) :
                                    /\ validated[i].threw
                                    /\ \A j \in 1..(i - 1) : ~validated[j].threw])
        ELSE IF family.threw
        THEN unchanged(family)
        ELSE CalculateValidated(
                 [i \in 1..Len(plans) |-> validated[i].value],
                 family.value.members,
                 GenerateFamilyUsageTimeline(family.value.members,
                                             family.value.serviceCosts),
                 faults)

----------------------------------------------------------------------------
(* Inputs of the model: raw plans, raw families and service cost tables *)

\* the medium cost area table of ServiceCostManager.getServiceCostsByArea
DefaultServiceCosts ==
    [primaryVisit |-> Dollars(150), specialistVisit |-> Dollars(250),
     therapySession |-> Dollars(120), labWork |-> Dollars(200),
     basicImaging |-> Dollars(400), advancedImaging |-> Dollars(1500),
     physicalTherapy |-> Dollars(115), emergencyRoom |-> Dollars(1800),
     urgentCare |-> Dollars(225)]

\* a raw plan as PlanManager stores it: numbers in the numeric fields
RawPlan(id, deductible, famDeductible, oopMax, famOOPMax, copay, coinsurance, rx, tier1) ==
    [id |-> id, name |-> id,
     monthlyPremium |-> Num(Dollars(100)),
     spousePremium |-> Num(Dollars(150)),
     familyPremium |-> Num(Dollars(200)),
     individualDeductible |-> Num(deductible),
     familyDeductible |-> Num(famDeductible),
     individualOOPMax |-> Num(oopMax),
     familyOOPMax |-> Num(famOOPMax),
     primaryCopay |-> Num(copay),
     coinsurance |-> Num(coinsurance),
     rxDeductible |-> Num(rx),
     tier1DrugCost |-> Num(tier1.cost),
     tier1DrugCostType |-> tier1.type]

\* tier 1 pricing: a $10 copay, or the untyped rate 0.5
Tier1Pricings == {[cost |-> Dollars(10), type |-> "copay"], [cost |-> 50, type |-> ""]}

EngineRawPlans ==
    { RawPlan("planA", d, fd, o, fo, c, k, rx, t1) :
        d \in {0, Dollars(250)}, fd \in {0, Dollars(400)},
        o \in {0, Dollars(300)}, fo \in {0, Dollars(450)},
        c \in {0, Dollars(30)}, k \in {0, 20},
        rx \in {0, Dollars(120)}, t1 \in Tier1Pricings }

\* a raw family member as FamilyManager stores it
RawMember(id, relationship, age, primaryVisits, labWork, medications) ==
    [id |-> id, relationship |-> relationship, age |-> Num(age), isActive |-> TRUE,
     primaryVisits |-> Num(primaryVisits), specialistVisits |-> Num(0),
     therapyVisits |-> Num(0), labWork |-> Num(labWork), imaging |-> Num(0),
     physicalTherapy |-> Num(0), medications |-> medications]

\* a $50 per month tier 1 medication
GenericMedication == [tier |-> Num(1), monthlyCost |-> Num(Dollars(50))]

MedicationLists == {<<>>, <<GenericMedication>>}

FirstMembers ==
    { RawMember("m1", "self", 35, pv, lab, meds) :
        pv \in 0..MaxVisits, lab \in 0..1, meds \in MedicationLists }

OtherMembers ==
    { <<>>,
      <<RawMember("m2", "spouse", 33, 1, 0, <<GenericMedication>>)>>,
      <<RawMember("m3", "child", 8, 1, 0, <<>>)>> }

EngineRawFamilies ==
    { [members |-> <<m>> \o rest, serviceCosts |-> DefaultServiceCosts] :
        m \in FirstMembers, rest \in OtherMembers }

\* simple deductible exhaustion: a $500 deductible, 20% coinsurance, no
\* out-of-pocket maximum, and one member with one $2000 lab test
DeductibleScenario ==
    <<RawPlan("planA", Dollars(500), 0, 0, 0, 0, 20, 0, [cost |-> Dollars(10), type |-> "copay"]),
      [members |-> <<RawMember("m1", "self", 35, 0, 1, <<>>)>>,
       serviceCosts |-> [DefaultServiceCosts EXCEPT !.labWork = Dollars(2000)]]>>

\* individual cap in the middle of an event: a $2000 individual maximum under
\* a $5000 deductible; seven $50 refills, then a $1550 visit and a $300 lab
\* test on day 182, then five more refills
OOPCapScenario ==
    <<RawPlan("planA", Dollars(5000), 0, Dollars(2000), 0, 0, 20, 0, [cost |-> Dollars(10), type |-> "copay"]),
      [members |-> <<RawMember("m1", "self", 35, 1, 1, <<GenericMedication>>)>>,
       serviceCosts |-> [DefaultServiceCosts EXCEPT !.primaryVisit = Dollars(1550),
                                                    !.labWork = Dollars(300)]]>>

\* separate Rx deductible: a $200 Rx deductible next to a $500 medical
\* deductible, a $10 tier 1 copay, and one member whose only usage is a $50
\* per month tier 1 medication
RxDeductibleScenario ==
    <<RawPlan("planA", Dollars(500), 0, 0, 0, 0, 20, Dollars(200), [cost |-> Dollars(10), type |-> "copay"]),
      [members |-> <<RawMember("m1", "self", 35, 0, 0, <<GenericMedication>>)>>,
       serviceCosts |-> DefaultServiceCosts]>>

\* plans with and without an employee+spouse and a family premium
PremiumPlans ==
    { [RawPlan("planA", Dollars(250), 0, 0, 0, 0, 20, 0, [cost |-> Dollars(10), type |-> "copay"])
          EXCEPT !.spousePremium = Num(sp), !.familyPremium = Num(fp)] :
        sp \in {0, Dollars(150)}, fp \in {0, Dollars(200)} }

\* one member with a visit, alone or with members who use nothing: a spouse,
\* a child, a 16 year old who is not flagged as a child, a spouse and a child
PremiumFamilies ==
    { [members |-> <<RawMember("m1", "self", 35, 1, 0, <<>>)>> \o rest,
       serviceCosts |-> DefaultServiceCosts] :
        rest \in { <<>>,
                   <<RawMember("m2", "spouse", 33, 0, 0, <<>>)>>,
                   <<RawMember("m3", "child", 8, 0, 0, <<>>)>>,
                   <<RawMember("m4", "other", 16, 0, 0, <<>>)>>,
                   <<RawMember("m2", "spouse", 33, 0, 0, <<>>),
                     RawMember("m3", "child", 8, 0, 0, <<>>)>> } }

PremiumScenarios == PremiumPlans \X PremiumFamilies

\* copays next to coinsurance: a $100 deductible, a $30 primary copay, a $400
\* specialist copay (more than the $250 a specialist visit costs), 20%
\* coinsurance, and one member with a primary visit, a specialist visit, a
\* therapy session and a lab test
CopayScenario ==
    <<[specialistCopay |-> Num(Dollars(400))]
          @@ RawPlan("planA", Dollars(100), 0, 0, 0, Dollars(30), 20, 0,
                     [cost |-> Dollars(10), type |-> "copay"]),
      [members |-> <<[RawMember("m1", "self", 35, 1, 1, <<>>)
                         EXCEPT !.specialistVisits = Num(1), !.therapyVisits = Num(1)]>>,
       serviceCosts |-> DefaultServiceCosts]>>

ScenarioInputs ==
    {DeductibleScenario, OOPCapScenario, RxDeductibleScenario, CopayScenario}
        \cup PremiumScenarios

\* the plan and the family of a run of the engine
EngineInputs == (EngineRawPlans \X EngineRawFamilies) \cup ScenarioInputs

----------------------------------------------------------------------------
(* Spec: one plan applied to one family's timeline, one loop iteration of  *)
(* applyPlanRules per step, then generatePlanResult                        *)

NoResult == [none |-> TRUE]

NoEventResult == [memberCost |-> 0, appliedToFamilyDeductible |-> 0,
                  appliedToIndividualDeductible |-> 0, appliedToRxDeductible |-> 0]

\* the object fields and call records of calculateAll after construction
CalcIdle ==
    /\ callPlans = <<>>
    /\ callFamily = [members |-> <<>>]
    /\ callFaults = {}
    /\ outcome = [none |-> TRUE]
    /\ lastUsageTable = UndefinedField
    /\ lastPlanProgressions = UndefinedField

\* the application is not running: the fields of App as its constructor sets
\* them, managers without plans and members, and the default cost table
AppIdle ==
    /\ isCalculating = FALSE
    /\ calculationCount = 0
    /\ planManagerPlans = <<>>
    /\ familyManagerMembers = <<>>
    /\ serviceCostManagerCosts = DefaultServiceCosts
    /\ displayed = [kind |-> "none"]
    /\ recalcPc = "idle"

\* no function instance is running: the clock at the start of a window, no
\* store, no timer, no request made
ServerIdle ==
    /\ now = 0
    /\ memoryStore = <<>>
    /\ timers = {}
    /\ reachedLLM = <<>>
    /\ responses = [sent |-> 0, status |-> 0]
    /\ inFlight = 0

\* the EventEmitter as its constructor leaves it: this.events = {}
EmitterIdle ==
    /\ emitterEvents = <<>>
    /\ callStack = <<>>
    /\ invocations = <<>>
    /\ emitCount = 0

\* no export has been asked for
ExportIdle ==
    /\ csvRows = <<>>
    /\ exportPc = "idle"

SiteIdle == ServerIdle /\ EmitterIdle /\ ExportIdle

Init ==
    /\ \E input \in EngineInputs :
          /\ rawPlan = input[1]
          /\ rawFamily = input[2]
    /\ plan = ValidateAndNormalizePlan(rawPlan).value
    /\ members = ValidateFamilyData(rawFamily).value.members
    /\ serviceCosts = ValidateFamilyData(rawFamily).value.serviceCosts
    /\ CalcIdle
    /\ AppIdle
    /\ SiteIdle
    /\ usageTable = <<>>
    /\ familyState = InitialFamilyState
    /\ memberStates = <<>>
    /\ progression = <<>>
    /\ eventResult = NoEventResult
    /\ result = NoResult
    /\ pc = "generateTimeline"

\* calculateAll, Phase 1
GenerateTimeline ==
    /\ pc = "generateTimeline"
    /\ usageTable' = GenerateFamilyUsageTimeline(members, serviceCosts)
    /\ pc' = "applyPlanRules"
    /\ UNCHANGED <<rawPlan, rawFamily, plan, members, serviceCosts, familyState,
                   memberStates, progression, eventResult, result, calcVars, appVars, siteVars>>

\* applyPlanRules up to its loop: the accumulators start at zero
BeginApplyPlanRules ==
    /\ pc = "applyPlanRules"
    /\ familyState' = InitialFamilyState
    /\ memberStates' = InitialMemberStates(members)
    /\ progression' = <<>>
    /\ pc' = "processEvents"
    /\ UNCHANGED <<rawPlan, rawFamily, plan, members, serviceCosts, usageTable,
                   eventResult, result, calcVars, appVars, siteVars>>

\* one iteration of the loop over usageTable
ProcessEvent ==
    /\ pc = "processEvents"
    /\ Len(progression) < Len(usageTable)
    /\ LET step == ApplyEvent(plan, members, usageTable[Len(progression) + 1],
                              familyState, memberStates)
       IN  /\ familyState' = step.familyState
           /\ memberStates' = step.memberStates
           /\ eventResult' = step.eventResult
           /\ progression' = Append(progression, step.row)
    /\ UNCHANGED <<rawPlan, rawFamily, plan, members, serviceCosts, usageTable,
                   result, pc, calcVars, appVars, siteVars>>

\* the loop is over: generatePlanResult
SummarizePlan ==
    /\ pc = "processEvents"
    /\ Len(progression) = Len(usageTable)
    /\ result' = GeneratePlanResult(plan, progression, members)
    /\ pc' = "done"
    /\ UNCHANGED <<rawPlan, rawFamily, plan, members, serviceCosts, usageTable,
                   familyState, memberStates, progression, eventResult, calcVars, appVars, siteVars>>

Next ==
    \/ GenerateTimeline
    \/ BeginApplyPlanRules
    \/ ProcessEvent
    \/ SummarizePlan

Spec == Init /\ [][Next]_vars

----------------------------------------------------------------------------
(* Properties of the rules engine, checked under Spec *)

LastRow == progression[Len(progression)]

\* C1: with a positive individualOOPMax, in every row of the progression the
\* owning member's individualOOPUsed is at most plan.individualOOPMax
IndividualOOPNeverExceedsMax ==
    plan.individualOOPMax > 0 =>
        \A i \in 1..Len(progression) :
            progression[i].individualOOPUsed <= plan.individualOOPMax

\* an event whose computed cost was cut by the individual cap
IndividualCapApplied ==
    /\ plan.individualOOPMax > 0
    /\ Len(progression) > 0
    /\ eventResult.memberCost > LastRow.eventCost
    /\ LastRow.individualOOPUsed = plan.individualOOPMax

\* the family out-of-pocket maximum as the claims state it: familyOOPMax, or
\* twice individualOOPMax when unset (0: there is none)
StatedFamilyOOPMax ==
    IF plan.familyOOPMax # 0 THEN plan.familyOOPMax ELSE 2 * plan.individualOOPMax

\* C2: the totalOutOfPocket of a plan result is at most the family
\* out-of-pocket maximum, when there is one
TotalOutOfPocketWithinFamilyMax ==
    (pc = "done" /\ StatedFamilyOOPMax > 0) =>
        result.familyTotals.totalOutOfPocket <= StatedFamilyOOPMax

\* a result whose family spending went over the maximum before the cap
FamilyCapApplied ==
    /\ pc = "done"
    /\ StatedFamilyOOPMax > 0
    /\ familyState.oopUsed > StatedFamilyOOPMax
    /\ result.familyTotals.totalOutOfPocket = StatedFamilyOOPMax

\* the family deductible as the claims state it
StatedFamilyDeductible ==
    IF plan.familyDeductible # 0 THEN plan.familyDeductible
    ELSE 2 * plan.individualDeductible

\* C3: familyDeductibleUsed and each member's individualDeductibleUsed never
\* decrease from one row to a later one and never exceed their deductible
DeductiblesMonotoneAndBounded ==
    /\ \A i \in 1..Len(progression) :
          /\ progression[i].familyDeductibleUsed <= StatedFamilyDeductible
          /\ progression[i].individualDeductibleUsed <= plan.individualDeductible
    /\ \A i, j \in 1..Len(progression) :
          i < j =>
            /\ progression[i].familyDeductibleUsed <= progression[j].familyDeductibleUsed
            /\ (progression[i].memberId = progression[j].memberId =>
                  progression[i].individualDeductibleUsed
                      <= progression[j].individualDeductibleUsed)

\* the family deductible is met while the member of the last event still had
\* individual deductible left, and an earlier row shows less used
FamilyDeductibleMet ==
    /\ Len(progression) > 1
    /\ StatedFamilyDeductible > 0
    /\ LastRow.familyDeductibleUsed = StatedFamilyDeductible
    /\ LastRow.individualDeductibleUsed < plan.individualDeductible
    /\ progression[1].familyDeductibleUsed > 0
    /\ progression[1].familyDeductibleUsed < StatedFamilyDeductible

\* C4: the totalWithPremiums of a successfully calculated result is the annual
\* premium plus the total out-of-pocket
TotalIsAnnualPremiumPlusOutOfPocket ==
    (pc = "done" /\ "error" \notin DOMAIN result) =>
        result.familyTotals.totalWithPremiums
            = result.annualPremium + result.familyTotals.totalOutOfPocket

----------------------------------------------------------------------------
(* SpecCalc: calls of calculateAll on one CostCalculator, each call one step *)

Copay10 == [cost |-> Dollars(10), type |-> "copay"]

\* $250 deductible, then 20% coinsurance
CalcPlanA == RawPlan("planA", Dollars(250), 0, 0, 0, 0, 20, 0, Copay10)

\* no deductible, a $30 copay entered as the string "30", a $300 individual
\* out-of-pocket maximum, an empty spouse premium, a higher premium
CalcPlanB ==
    [RawPlan("planB", 0, 0, Dollars(300), 0, 0, 0, 0, Copay10)
        EXCEPT !.primaryCopay = Str(<<"3", "0">>),
               !.spousePremium = Str(<<>>),
               !.monthlyPremium = Num(Dollars(120))]

\* the terms of plan A under another id, the coinsurance as { medical: 0.2 }
CalcPlanC ==
    [CalcPlanA EXCEPT !.id = "planC", !.name = "planC",
                      !.coinsurance = [t |-> "object", medical |-> Num(20)]]

PlanNoId == [CalcPlanA EXCEPT !.id = ""]

PlanNoName == [CalcPlanB EXCEPT !.name = ""]

\* individualDeductible: 'abc'
PlanBadNumber == [CalcPlanB EXCEPT !.individualDeductible = Str(<<"a", "b", "c">>)]

\* coinsurance: '20' (neither a number nor an object with a medical field)
PlanBadCoinsurance == [CalcPlanC EXCEPT !.coinsurance = Str(<<"2", "0">>)]

ValidPlanLists ==
    { <<CalcPlanA>>, <<CalcPlanA, CalcPlanB>>, <<CalcPlanB, CalcPlanA>>,
      <<CalcPlanA, CalcPlanC, CalcPlanB>> }

InvalidPlanLists ==
    { <<>>, <<PlanNoId>>, <<CalcPlanA, PlanNoName>>, <<PlanBadNumber, CalcPlanA>>,
      <<CalcPlanB, PlanBadCoinsurance>> }

\* one member with two primary visits and lab work
CalcFamilyOne ==
    [members |-> <<RawMember("m1", "self", 35, 2, 1, <<>>)>>,
     serviceCosts |-> DefaultServiceCosts]

\* two adults, the second with one visit
CalcFamilyTwo ==
    [members |-> <<RawMember("m1", "self", 35, 1, 0, <<>>),
                   RawMember("m2", "spouse", 33, 1, 0, <<>>)>>,
     serviceCosts |-> DefaultServiceCosts]

\* a member object with the key 'medications[0].name'
CalcFamilyCorrupt ==
    [members |-> <<RawMember("m1", "self", 35, 1, 0, <<>>),
                   ("medications[0].name" :> Str(<<"x">>))
                       @@ RawMember("m2", "spouse", 33, 1, 0, <<>>)>>,
     serviceCosts |-> DefaultServiceCosts]

CalcFamilyEmpty == [members |-> <<>>, serviceCosts |-> DefaultServiceCosts]

\* one member who uses no service and takes no medication
CalcFamilyNoUsage ==
    [members |-> <<RawMember("m1", "self", 35, 0, 0, <<>>)>>,
     serviceCosts |-> DefaultServiceCosts]

\* an adult and a deactivated spouse, each with one visit
CalcFamilyInactive ==
    [members |-> <<RawMember("m1", "self", 35, 1, 0, <<>>),
                   [RawMember("m2", "spouse", 33, 1, 0, <<>>) EXCEPT !.isActive = FALSE]>>,
     serviceCosts |-> DefaultServiceCosts]

ValidFamilies == {CalcFamilyOne, CalcFamilyTwo, CalcFamilyNoUsage, CalcFamilyInactive}

InvalidFamilies == {CalcFamilyCorrupt, CalcFamilyEmpty}

\* the inputs of a call: a valid plan list with a valid family, an invalid
\* plan list, or an invalid family
ValidInputs == ValidPlanLists \X ValidFamilies

CallInputs ==
    ValidInputs
    \cup (InvalidPlanLists \X {CalcFamilyOne})
    \cup ({<<CalcPlanA, CalcPlanB>>} \X InvalidFamilies)

\* at most one plan of the call throws, in applyPlanRules or in
\* generatePlanResult; no plan is calculated when validation rejects the input
FaultChoices(input) ==
    IF input \in ValidInputs
    THEN {{}} \cup { {[id |-> input[1][i].id, at |-> at]} :
                        i \in 1..Len(input[1]),
                        at \in {"applyPlanRules", "generatePlanResult"} }
    ELSE {{}}

EngineIdle ==
    /\ rawPlan = [id |-> ""]
    /\ rawFamily = [members |-> <<>>]
    /\ plan = [id |-> ""]
    /\ members = <<>>
    /\ serviceCosts = <<>>
    /\ usageTable = <<>>
    /\ familyState = InitialFamilyState
    /\ memberStates = <<>>
    /\ progression = <<>>
    /\ eventResult = NoEventResult
    /\ result = NoResult
    /\ pc = "idle"

InitCalc == EngineIdle /\ CalcIdle /\ AppIdle /\ SiteIdle

CalculateAll(plans, familyData, faults) ==
    /\ callPlans' = plans
    /\ callFamily' = familyData
    /\ callFaults' = faults
    /\ \E run \in {CalculateAllRun(plans, familyData, faults,
                                    lastUsageTable, lastPlanProgressions)} :
          /\ outcome' = run.outcome
          /\ lastUsageTable' = run.lastUsageTable
          /\ lastPlanProgressions' = run.lastPlanProgressions
    /\ UNCHANGED <<engineVars, appVars, siteVars>>

NextCalc ==
    \E input \in CallInputs :
        \E faults \in FaultChoices(input) :
            CalculateAll(input[1], input[2], faults)

SpecCalc == InitCalc /\ [][NextCalc]_vars

----------------------------------------------------------------------------
(* Properties of calculateAll, checked under SpecCalc *)

\* the last call returned a result set
CallReturned == "threw" \in DOMAIN outcome /\ ~outcome.threw

\* the last call threw
CallThrew == "threw" \in DOMAIN outcome /\ outcome.threw

PlanIdsOf(results) == DOMAIN results.byId

RankIn(results, id) == results.byId[id].comparison.rank

\* the original wording of C5: rank(a) < rank(b) exactly when
\* totalWithPremiums(a) <= totalWithPremiums(b), for two different plans
RankLowerIffTotalAtMost ==
    CallReturned =>
        \A a, b \in PlanIdsOf(outcome.value) :
            a # b => (RankIn(outcome.value, a) < RankIn(outcome.value, b)
                        <=> TotalOf(outcome.value, a) <= TotalOf(outcome.value, b))

\* C5 (amended): after addComparisonMetrics the ranks of a result set are the
\* numbers 1..n, each given once; a plan with a strictly lower
\* totalWithPremiums has a strictly lower rank, and a plan with a lower rank
\* never has a higher total (plans with equal totals get different ranks)
RankOrderFollowsTotals ==
    CallReturned =>
        /\ {RankIn(outcome.value, a) : a \in PlanIdsOf(outcome.value)}
               = 1..Cardinality(PlanIdsOf(outcome.value))
        /\ \A a, b \in PlanIdsOf(outcome.value) :
               /\ a # b => RankIn(outcome.value, a) # RankIn(outcome.value, b)
               /\ TotalOf(outcome.value, a) < TotalOf(outcome.value, b)
                     => RankIn(outcome.value, a) < RankIn(outcome.value, b)
               /\ RankIn(outcome.value, a) < RankIn(outcome.value, b)
                     => TotalOf(outcome.value, a) <= TotalOf(outcome.value, b)

\* a result set with two plans of equal total and a third, costlier plan that
\* was inserted before one of them
RankedWithTie ==
    /\ CallReturned
    /\ callFaults = {}
    /\ \E a, b, c \in PlanIdsOf(outcome.value) :
          /\ a # b
          /\ TotalOf(outcome.value, a) = TotalOf(outcome.value, b)
          /\ TotalOf(outcome.value, a) > 0
          /\ TotalOf(outcome.value, a) # TotalOf(outcome.value, c)
          /\ RankIn(outcome.value, a) < RankIn(outcome.value, c)

\* every field of a plan result but its comparison
CostFigures(r) == [f \in DOMAIN r \ {"comparison"} |-> r[f]]

FailedIds == {f.id : f \in callFaults}

IsOtherPlan(p) == p.id \notin FailedIds

\* the call without the plans that threw
CallWithoutFailed ==
    CalculateAllRun(SelectSeq(callPlans, IsOtherPlan), callFamily, {},
                    lastUsageTable, lastPlanProgressions)

\* C6: when the calculation of one plan throws, calculateAll returns a result
\* for every plan of the call, and the result (all but its comparison) and
\* the progression of every other plan are those of the call without the
\* failing plan
PlanFailureIsContained ==
    (CallReturned /\ callFaults # {}) =>
        /\ \A i \in 1..Len(callPlans) : callPlans[i].id \in PlanIdsOf(outcome.value)
        /\ \A i \in 1..Len(callPlans) :
               IsOtherPlan(callPlans[i]) =>
                   /\ CostFigures(outcome.value.byId[callPlans[i].id])
                        = CostFigures(CallWithoutFailed.outcome.value.byId[callPlans[i].id])
                   /\ lastPlanProgressions.byId[callPlans[i].id]
                        = CallWithoutFailed.lastPlanProgressions.byId[callPlans[i].id]

\* a call of three plans in which the second threw and the others have costs
PlanFailedAmongOthers ==
    /\ CallReturned
    /\ Len(callPlans) = 3
    /\ FailedIds = {callPlans[2].id}
    /\ "error" \in DOMAIN outcome.value.byId[callPlans[2].id]
    /\ TotalOf(outcome.value, callPlans[1].id) > 0
    /\ TotalOf(outcome.value, callPlans[3].id) > 0

\* C7: in a returned result set every error placeholder has zeroed totals,
\* rank 999, isWorst true and isBest false
FailedPlanIsMarkedWorst ==
    CallReturned =>
        \A id \in PlanIdsOf(outcome.value) :
            "error" \in DOMAIN outcome.value.byId[id] =>
                /\ TotalOf(outcome.value, id) = 0
                /\ outcome.value.byId[id].familyTotals.totalOutOfPocket = 0
                /\ outcome.value.byId[id].comparison.rank = 999
                /\ outcome.value.byId[id].comparison.isWorst
                /\ ~outcome.value.byId[id].comparison.isBest

\* a plan without id or name, with a non-numeric value in a numeric field, or
\* with a malformed coinsurance
PlanFailsValidation(raw) ==
    \/ "id" \notin DOMAIN raw \/ raw.id = ""
    \/ "name" \notin DOMAIN raw \/ raw.name = ""
    \/ \E i \in 1..Len(NumericFields) :
          /\ IsSet(raw, NumericFields[i])
          /\ ParseFloat(raw[NumericFields[i]]).nan
    \/ /\ Get(raw, "coinsurance").t \notin {"undefined", "null", "number"}
       /\ \/ Get(raw, "coinsurance").t # "object"
          \/ Get(raw, "coinsurance").medical.t = "undefined"
          \/ ParseFloat(Get(raw, "coinsurance").medical).nan

\* a member object with a key that contains '[' and ']'
MemberFailsValidation(member) == DOMAIN member \cap BracketKeys # {}

InputFailsValidation(plans, familyData) ==
    \/ \E i \in 1..Len(plans) : PlanFailsValidation(plans[i])
    \/ \E i \in 1..Len(familyData.members) :
          MemberFailsValidation(familyData.members[i])

\* C8: a call whose plans or members fail validation throws, and
\* lastUsageTable and lastPlanProgressions keep the values they had before
ValidationFailureLeavesStateAlone ==
    [][InputFailsValidation(callPlans', callFamily') =>
          /\ outcome'.threw
          /\ lastUsageTable' = lastUsageTable
          /\ lastPlanProgressions' = lastPlanProgressions]_vars

\* a call rejected by validation after a call that stored a timeline of
\* events and the progressions of its plans
RejectedAfterStoredRun ==
    /\ CallThrew
    /\ InputFailsValidation(callPlans, callFamily)
    /\ lastUsageTable # UndefinedField
    /\ lastUsageTable.events # <<>>
    /\ lastPlanProgressions.order # <<>>

----------------------------------------------------------------------------
(* SpecValidation: the validator boundary of calculateAll on one raw plan   *)
(* and one raw family, then generateFamilyUsageTimeline on what it accepts  *)

\* raw values of a numeric field: -100, 0, 40, '-5' and 'abc'
RawFieldValues ==
    {Num(-Dollars(100)), Num(0), Num(Dollars(40)), Str(<<"-", "5">>),
     Str(<<"a", "b", "c">>)}

\* plan A with one numeric field replaced
ValidationRawPlans ==
    { [CalcPlanA EXCEPT ![f] = v] :
        f \in {"monthlyPremium", "individualDeductible", "familyOOPMax",
               "primaryCopay", "rxDeductible", "tier1DrugCost"},
        v \in RawFieldValues }

\* a medication whose monthly cost is negative
NegativeMedication == [tier |-> Num(1), monthlyCost |-> Num(-Dollars(20))]

ValidationMembers ==
    { RawMember("m1", "self", 35, pv, lab, meds) :
        pv \in {-1, 0, MaxVisits}, lab \in {-2, 1},
        meds \in {<<>>, <<GenericMedication>>, <<NegativeMedication>>} }

\* the cost tables a caller may pass: the full table, one without the
\* primaryVisit key, one with a negative cost
ValidationCostTables ==
    { DefaultServiceCosts,
      [labWork |-> Dollars(200)],
      [DefaultServiceCosts EXCEPT !.primaryVisit = -Dollars(150)] }

\* families with a cost table, and families whose serviceCosts is undefined
ValidationRawFamilies ==
    { [members |-> <<m>>, serviceCosts |-> costs] :
        m \in ValidationMembers, costs \in ValidationCostTables }
    \cup { [members |-> <<m>>] : m \in ValidationMembers }
    \cup { CalcFamilyCorrupt }

InitValidation ==
    /\ rawPlan \in ValidationRawPlans
    /\ rawFamily \in ValidationRawFamilies
    /\ plan = [id |-> ""]
    /\ members = <<>>
    /\ serviceCosts = <<>>
    /\ usageTable = <<>>
    /\ familyState = InitialFamilyState
    /\ memberStates = <<>>
    /\ progression = <<>>
    /\ eventResult = NoEventResult
    /\ result = NoResult
    /\ pc = "validatePlan"
    /\ CalcIdle
    /\ AppIdle
    /\ SiteIdle

\* const validatedPlans = plans.map(plan => this.validateAndNormalizePlan(plan))
ValidatePlan ==
    /\ pc = "validatePlan"
    /\ IF ValidateAndNormalizePlan(rawPlan).threw
       THEN /\ pc' = "rejected"
            /\ UNCHANGED plan
       ELSE /\ plan' = ValidateAndNormalizePlan(rawPlan).value
            /\ pc' = "validateFamily"
    /\ UNCHANGED <<rawPlan, rawFamily, members, serviceCosts, usageTable, familyState,
                   memberStates, progression, eventResult, result, calcVars, appVars, siteVars>>

\* const validatedFamilyData = this.validateFamilyData(familyData)
ValidateFamily ==
    /\ pc = "validateFamily"
    /\ IF ValidateFamilyData(rawFamily).threw
       THEN /\ pc' = "rejected"
            /\ UNCHANGED <<members, serviceCosts>>
       ELSE /\ members' = ValidateFamilyData(rawFamily).value.members
            /\ serviceCosts' = ValidateFamilyData(rawFamily).value.serviceCosts
            /\ pc' = "generateTimeline"
    /\ UNCHANGED <<rawPlan, rawFamily, plan, usageTable, familyState,
                   memberStates, progression, eventResult, result, calcVars, appVars, siteVars>>

NextValidation ==
    \/ ValidatePlan
    \/ ValidateFamily
    \/ GenerateTimeline

SpecValidation == InitValidation /\ [][NextValidation]_vars

\* the plan has been validated and accepted
PlanValidated == pc \in {"validateFamily", "generateTimeline", "applyPlanRules"}

\* the family has been validated and accepted
FamilyValidated == pc \in {"generateTimeline", "applyPlanRules"}

\* C9: after validation every numeric field of the plan, every usage count
\* of a member and every medication monthlyCost is >= 0, and a negative raw
\* value does not make validation throw
ValidatedNumbersNonNegative ==
    /\ pc = "rejected" => InputFailsValidation(<<rawPlan>>, rawFamily)
    /\ PlanValidated =>
          \A i \in 1..Len(NumericFields) : plan[NumericFields[i]] >= 0
    /\ FamilyValidated =>
          \A m \in 1..Len(members) :
              /\ \A i \in 1..Len(UsageFields) : members[m][UsageFields[i]] >= 0
              /\ \A k \in 1..Len(members[m].medications) :
                    members[m].medications[k].monthlyCost >= 0

\* C10: every usage event generated from an accepted family has a grossCost
\* that is a defined number >= 0
EveryUsageEventHasGrossCost ==
    pc = "applyPlanRules" =>
        \A i \in 1..Len(usageTable) :
            /\ "grossCost" \in DOMAIN usageTable[i]
            /\ usageTable[i].grossCost >= 0

----------------------------------------------------------------------------
(* Properties of the timeline and the progressions, checked under SpecCalc *)

\* row and event agree on the usage data the row copies
RowCarriesEvent(row, usageEvent) ==
    /\ row.day = usageEvent.day
    /\ row.memberId = usageEvent.memberId
    /\ row.eventType = usageEvent.eventType
    /\ row.grossCost = usageEvent.grossCost

\* C11: within one calculateAll every plan whose applyPlanRules returned has
\* a progression with exactly one row per event of the stored timeline, in
\* timeline order, each row carrying the day, memberId, eventType and
\* grossCost of its event; the stored timeline is the one generated from the
\* validated family
TimelineSharedByPlans ==
    CallReturned =>
        /\ lastUsageTable.events
             = GenerateFamilyUsageTimeline(ValidateFamilyData(callFamily).value.members,
                                           ValidateFamilyData(callFamily).value.serviceCosts)
        /\ \A i \in 1..Len(callPlans) :
              FaultOf(callFaults, callPlans[i].id) # "applyPlanRules"
                  => callPlans[i].id \in DOMAIN lastPlanProgressions.byId
        /\ \A id \in DOMAIN lastPlanProgressions.byId :
              /\ Len(lastPlanProgressions.byId[id]) = Len(lastUsageTable.events)
              /\ \A k \in 1..Len(lastUsageTable.events) :
                    RowCarriesEvent(lastPlanProgressions.byId[id][k],
                                    lastUsageTable.events[k])

\* three plans applied to a timeline of three events of two kinds of service
ThreePlansOneTimeline ==
    /\ CallReturned
    /\ Cardinality(DOMAIN lastPlanProgressions.byId) = 3
    /\ Len(lastUsageTable.events) = 3
    /\ \E j, k \in 1..3 :
          lastUsageTable.events[j].serviceType # lastUsageTable.events[k].serviceType

----------------------------------------------------------------------------
(* Properties of generateFamilyUsageTimeline, checked under Spec *)

\* the timeline has been generated
TimelineGenerated == pc # "generateTimeline"

\* C12: the timeline returned by generateFamilyUsageTimeline is in
\* non-decreasing order of day across the events of all members
TimelineSortedByDay ==
    TimelineGenerated =>
        \A i, j \in 1..Len(usageTable) :
            i < j => usageTable[i].day <= usageTable[j].day

\* a timeline of two members in which an event of the second member comes
\* before an event of the first, with events on different days
TimelineInterleavesMembers ==
    /\ TimelineGenerated
    /\ Len(members) = 2
    /\ \E i, j \in 1..Len(usageTable) :
          /\ i < j
          /\ usageTable[i].memberId = members[2].id
          /\ usageTable[j].memberId = members[1].id
          /\ usageTable[i].day < usageTable[j].day

----------------------------------------------------------------------------
(* SpecSchedule: the loops of generateFamilyUsageTimeline that push the     *)
(* events of one member, one events.push per step, up to the sort           *)

\* annual counts of a service: few visits, monthly, every other day, and
\* counts for which Math.floor(365 / count) is 1 or 0
ScheduleCounts == {1, 2, 12, 182, 183, 366}

\* medication lists with entries the medication loop skips: a monthlyCost of
\* 0, a negative one, none at all, next to medications of $50 and $80
ScheduleMedicationLists ==
    { <<[tier |-> Num(1), monthlyCost |-> Num(0)], GenericMedication>>,
      <<[tier |-> Num(1), monthlyCost |-> Num(0 - Dollars(20))], [tier |-> Num(1)]>>,
      <<GenericMedication, [tier |-> Num(1)],
        [tier |-> Num(1), monthlyCost |-> Num(Dollars(80))]>> }

\* families for the medication loop: no or one visit, no or two lab tests
ScheduleMedicationFamilies ==
    { [members |-> <<RawMember("m1", "self", 35, pv, lab, meds)>>,
       serviceCosts |-> DefaultServiceCosts] :
        pv \in {0, 1}, lab \in {0, 2}, meds \in ScheduleMedicationLists }

ScheduleRawFamilies ==
    { [members |-> <<RawMember("m1", "self", 35, pv, lab, meds)>>,
       serviceCosts |-> DefaultServiceCosts] :
        pv \in ScheduleCounts, lab \in {0, 2}, meds \in MedicationLists }

\* the number of events of one service type pushed so far
PushedOfType(events, type) ==
    Cardinality({i \in 1..Len(events) : events[i].serviceType = type})

\* the services of annualServices whose inner loop has not finished
UnfinishedServices(member, events) ==
    {s \in 1..6 : PushedOfType(events, AnnualServices(member)[s].type)
                    < AnnualServices(member)[s].count}

\* the medications the medication loop does not skip
HasMonthlyCost(medication) == ~(medication.monthlyCost = 0 \/ medication.monthlyCost <= 0)

BillableMedications(member) == SelectSeq(member.medications, HasMonthlyCost)

InitSchedule ==
    /\ rawPlan = CalcPlanA
    /\ rawFamily \in ScheduleRawFamilies \cup ScheduleMedicationFamilies
    /\ plan = ValidateAndNormalizePlan(rawPlan).value
    /\ members = ValidateFamilyData(rawFamily).value.members
    /\ serviceCosts = ValidateFamilyData(rawFamily).value.serviceCosts
    /\ usageTable = <<>>
    /\ familyState = InitialFamilyState
    /\ memberStates = <<>>
    /\ progression = <<>>
    /\ eventResult = NoEventResult
    /\ result = NoResult
    /\ pc = "pushEvents"
    /\ CalcIdle
    /\ AppIdle
    /\ SiteIdle

\* one iteration of for (let i = 0; i < service.count; i++) of the first
\* service whose loop has not finished
PushServiceEvent ==
    /\ pc = "pushEvents"
    /\ UnfinishedServices(members[1], usageTable) # {}
    /\ \E s \in UnfinishedServices(members[1], usageTable) :
          /\ \A t \in UnfinishedServices(members[1], usageTable) : s <= t
          /\ usageTable' =
                Append(usageTable,
                       ServiceEvent(members[1], AnnualServices(members[1])[s],
                                    PushedOfType(usageTable, AnnualServices(members[1])[s].type),
                                    serviceCosts))
    /\ UNCHANGED <<rawPlan, rawFamily, plan, members, serviceCosts, familyState,
                   memberStates, progression, eventResult, result, pc, calcVars, appVars, siteVars>>

\* one iteration of for (let month = 0; month < 12; month++)
PushMedicationEvent ==
    /\ pc = "pushEvents"
    /\ UnfinishedServices(members[1], usageTable) = {}
    /\ PushedOfType(usageTable, "medication") < 12 * Len(BillableMedications(members[1]))
    /\ usageTable' =
          Append(usageTable,
                 MedicationEvents(members[1],
                                  BillableMedications(members[1])
                                      [(PushedOfType(usageTable, "medication") \div 12) + 1])
                     [(PushedOfType(usageTable, "medication") % 12) + 1])
    /\ UNCHANGED <<rawPlan, rawFamily, plan, members, serviceCosts, familyState,
                   memberStates, progression, eventResult, result, pc, calcVars, appVars, siteVars>>

\* the loops are over: events.sort comes next
AllEventsPushed ==
    /\ pc = "pushEvents"
    /\ UnfinishedServices(members[1], usageTable) = {}
    /\ PushedOfType(usageTable, "medication") = 12 * Len(BillableMedications(members[1]))
    /\ pc' = "sortEvents"
    /\ UNCHANGED <<rawPlan, rawFamily, plan, members, serviceCosts, usageTable, familyState,
                   memberStates, progression, eventResult, result, calcVars, appVars, siteVars>>

NextSchedule ==
    \/ PushServiceEvent
    \/ PushMedicationEvent
    \/ AllEventsPushed

SpecSchedule == InitSchedule /\ [][NextSchedule]_vars

\* C13: every usage event pushed by generateFamilyUsageTimeline has a day
\* of the year within 1..365
EventDaysWithinYear ==
    \A i \in 1..Len(usageTable) : usageTable[i].day \in 1..365

----------------------------------------------------------------------------
(* Properties of calculateAll on families with deactivated members *)

IsActive(member) == member.isActive

\* the members of the last call that are active, as validateFamilyData
\* returns them
ActiveCallMembers == SelectSeq(ValidateFamilyData(callFamily).value.members, IsActive)

InactiveCallMemberIds ==
    {callFamily.members[i].id : i \in {j \in 1..Len(callFamily.members) :
                                          callFamily.members[j].isActive = FALSE}}

\* C14: a member with isActive = false contributes no usage event, has no
\* progression row, and is not counted when the premium tier is selected
InactiveMembersTakeNoPart ==
    CallReturned =>
        /\ \A k \in 1..Len(lastUsageTable.events) :
              lastUsageTable.events[k].memberId \notin InactiveCallMemberIds
        /\ \A id \in DOMAIN lastPlanProgressions.byId :
              \A k \in 1..Len(lastPlanProgressions.byId[id]) :
                 /\ lastPlanProgressions.byId[id][k].memberId \notin InactiveCallMemberIds
                 /\ \A i \in 1..Len(callPlans) :
                       callPlans[i].id = id =>
                          lastPlanProgressions.byId[id][k].coverageType
                            = DeterminePremiumTier(ValidateAndNormalizePlan(callPlans[i]).value,
                                                   ActiveCallMembers).coverageType

\* C15: when the usage produces no event, every plan gets a result without
\* error marker whose medical and Rx costs are 0 and whose total is the
\* annual premium
EmptyTimelineGivesPremiumOnlyResult ==
    (CallReturned /\ lastUsageTable.events = <<>>) =>
        \A id \in PlanIdsOf(outcome.value) :
            FaultOf(callFaults, id) = "none" =>
                /\ "error" \notin DOMAIN outcome.value.byId[id]
                /\ outcome.value.byId[id].familyTotals.medicalCosts = 0
                /\ outcome.value.byId[id].familyTotals.rxCosts = 0
                /\ outcome.value.byId[id].familyTotals.totalWithPremiums
                     = outcome.value.byId[id].annualPremium

----------------------------------------------------------------------------
(* Properties of single events, checked under Spec *)

\* the event the next iteration of the loop of applyPlanRules processes
NextEvent == usageTable[Len(progression) + 1]

\* an iteration of the loop of applyPlanRules
EventProcessed == pc = "processEvents" /\ Len(progression') = Len(progression) + 1

\* what is left of the family deductible and of the deductible of the member
\* of the next event, whichever is less
RemainingDeductibleBefore ==
    Min(Max(0, FamilyDeductibleOf(plan) - familyState.deductibleUsed),
        Max(0, IndividualDeductibleOf(plan) - memberStates[NextEvent.memberId].deductibleUsed))

DeductibleThenCoinsurance(grossCost, d) == d + Mul(grossCost - d, plan.coinsurance)

\* C16: without out-of-pocket maximum, a medical event of a service without
\* copay is charged d + coinsurance x (grossCost - d), d being the least of
\* grossCost and the remaining family and individual deductibles; one $2000
\* event under a $500 deductible and 20% coinsurance is charged $800
MedicalCostIsDeductibleThenCoinsurance ==
    [][(/\ EventProcessed
        /\ NextEvent.eventType = "medical"
        /\ GetCopayForService(plan, NextEvent.serviceType) = 0
        /\ plan.individualOOPMax = 0
        /\ plan.familyOOPMax = 0)
       => /\ progression'[Len(progression')].eventCost
               = DeductibleThenCoinsurance(NextEvent.grossCost,
                                           Min(NextEvent.grossCost, RemainingDeductibleBefore))
          /\ <<rawPlan, rawFamily>> = DeductibleScenario
               => progression'[Len(progression')].eventCost = Dollars(800)]_vars

\* the $2000 event of the scenario has been charged: $500 of deductible and
\* $300 of coinsurance
DeductibleScenarioCharged ==
    /\ <<rawPlan, rawFamily>> = DeductibleScenario
    /\ Len(progression) = 1
    /\ progression[1].grossCost = Dollars(2000)
    /\ progression[1].individualDeductibleUsed = Dollars(500)
    /\ progression[1].eventCost = Dollars(800)

\* the accumulators of the family before row j, read from the row before it
FamilyStateBefore(j) ==
    IF j = 1 THEN InitialFamilyState
    ELSE [deductibleUsed |-> progression[j - 1].familyDeductibleUsed,
          rxDeductibleUsed |-> progression[j - 1].familyRxDeductibleUsed,
          oopUsed |-> progression[j - 1].familyOOPUsed]

\* the rows before row j that belong to the member of row j
EarlierRowsOfMember(j) ==
    {k \in 1..(j - 1) : progression[k].memberId = progression[j].memberId}

LatestRowOfMemberBefore(j) ==
    CHOOSE k \in EarlierRowsOfMember(j) : \A l \in EarlierRowsOfMember(j) : l <= k

\* the accumulators of the member of row j before that row
MemberStateBefore(j) ==
    IF EarlierRowsOfMember(j) = {}
    THEN [deductibleUsed |-> 0, oopUsed |-> 0]
    ELSE [deductibleUsed |-> progression[LatestRowOfMemberBefore(j)].individualDeductibleUsed,
          oopUsed |-> progression[LatestRowOfMemberBefore(j)].individualOOPUsed]

\* the cost of the event of row j before the individual cap
PreCapCost(j) ==
    ProcessEventUnderPlan(plan, usageTable[j], FamilyStateBefore(j),
                          [id \in {progression[j].memberId} |-> MemberStateBefore(j)]).memberCost

\* row j is the event that takes its member from below the individual
\* maximum to above it
CrossesIndividualMax(j) ==
    /\ MemberStateBefore(j).oopUsed < plan.individualOOPMax
    /\ MemberStateBefore(j).oopUsed + PreCapCost(j) > plan.individualOOPMax

\* C17: in the progression of a plan, the event that would take a member
\* above individualOOPMax is charged individualOOPMax minus what the member
\* had accumulated, the member's individualOOPUsed becomes individualOOPMax,
\* and in every later row of the member eventCost is 0 and individualOOPUsed
\* is still individualOOPMax
IndividualCapClipsAndHolds ==
    (pc = "done" /\ plan.individualOOPMax > 0) =>
        \A j \in 1..Len(progression) :
            CrossesIndividualMax(j) =>
                /\ progression[j].eventCost
                     = plan.individualOOPMax - MemberStateBefore(j).oopUsed
                /\ progression[j].individualOOPUsed = plan.individualOOPMax
                /\ \A k \in (j + 1)..Len(progression) :
                      progression[k].memberId = progression[j].memberId =>
                          /\ progression[k].eventCost = 0
                          /\ progression[k].individualOOPUsed = plan.individualOOPMax

\* the scenario of C17: the member had accumulated $1900, the lab test costs
\* $300 before the cap and is charged $100, and the refills after it are free
OOPCapScenarioClipped ==
    /\ <<rawPlan, rawFamily>> = OOPCapScenario
    /\ pc = "done"
    /\ Len(progression) = 14
    /\ progression[8].individualOOPUsed = Dollars(1900)
    /\ CrossesIndividualMax(9)
    /\ PreCapCost(9) = Dollars(300)
    /\ progression[9].eventCost = Dollars(100)
    /\ progression[14].eventCost = 0
    /\ progression[14].individualOOPUsed = Dollars(2000)

\* the separate Rx deductible scenario: a $200 Rx deductible, a $10 tier 1
\* copay, and one member whose only usage is one $50 per month tier 1
\* medication
RxDeductibleScenarioRuns ==
    /\ plan.rxDeductible = Dollars(200)
    /\ plan.tier1DrugCost = Dollars(10)
    /\ plan.tier1DrugCostType = "copay"
    /\ Len(members) = 1
    /\ \A s \in 1..6 : AnnualServices(members[1])[s].count = 0
    /\ Len(members[1].medications) = 1
    /\ members[1].medications[1].tier = 1
    /\ members[1].medications[1].monthlyCost = Dollars(50)

\* C18, as stated: the first two refills are charged $50 each, with $100 of
\* Rx deductible used after them, and every refill from the third on is
\* charged the $10 copay
RxDeductibleMetAfterTwoRefills ==
    RxDeductibleScenarioRuns =>
        \A k \in 1..Len(progression) :
            /\ k <= 2 => progression[k].eventCost = Dollars(50)
            /\ k = 2 => progression[k].familyRxDeductibleUsed = Dollars(100)
            /\ k >= 3 => progression[k].eventCost = Dollars(10)

\* C18, amended: the first four refills are charged $50 each, which uses up
\* the $200 Rx deductible ($100 of it after the second), every refill from
\* the fifth on is charged the $10 copay, and the medical deductible
\* accumulators stay at 0
RxDeductibleMetAfterFourRefills ==
    RxDeductibleScenarioRuns =>
        \A k \in 1..Len(progression) :
            /\ progression[k].eventType = "medication"
            /\ k <= 4 => /\ progression[k].eventCost = Dollars(50)
                         /\ progression[k].familyRxDeductibleUsed = k * Dollars(50)
            /\ k >= 5 => /\ progression[k].eventCost = Dollars(10)
                         /\ progression[k].familyRxDeductibleUsed = Dollars(200)
            /\ progression[k].familyDeductibleUsed = 0
            /\ progression[k].individualDeductibleUsed = 0

\* the twelve refills of the scenario have been charged
RxScenarioYearCharged ==
    /\ RxDeductibleScenarioRuns
    /\ Len(progression) = 12
    /\ progression[4].familyRxDeductibleUsed = Dollars(200)
    /\ progression[5].eventCost = Dollars(10)
    /\ progression[12].familyOOPUsed = Dollars(280)

\* the family premium, or the base monthly premium when it is unset
FamilyPremiumOrBase(p) == IF p.familyPremium # 0 THEN p.familyPremium ELSE p.monthlyPremium

\* the premium the rule of C19 selects for the members of a calculation
StatedPremium(p, ms) ==
    IF Len(ms) = 1 THEN p.monthlyPremium
    ELSE IF Len(ms) = 2 /\ \A i \in 1..2 : ms[i].relationship # "child" /\ ms[i].age >= 18
    THEN (IF p.spousePremium # 0 THEN p.spousePremium ELSE FamilyPremiumOrBase(p))
    ELSE FamilyPremiumOrBase(p)

\* the members who use no service and take no medication
ZeroUsageMemberIds ==
    {members[i].id : i \in {j \in 1..Len(members) :
                               /\ \A s \in 1..6 : AnnualServices(members[j])[s].count = 0
                               /\ members[j].medications = <<>>}}

\* C19: the monthly premium of every row pushed, and the annual premium of
\* the result, is the one the number, relationship and age of the members
\* select (individual; employee+spouse, else family; family, else base), and
\* the timeline generated has no event of a member without usage
PremiumFollowsMembersNotUsage ==
    /\ Len(progression) > 0 => LastRow.monthlyPremium = StatedPremium(plan, members)
    /\ pc = "done" /\ "error" \notin DOMAIN result
          => result.annualPremium = 12 * StatedPremium(plan, members)
    /\ pc = "applyPlanRules"
          => \A k \in 1..Len(usageTable) : usageTable[k].memberId \notin ZeroUsageMemberIds

\* a spouse without usage has moved the plan from the individual to the
\* employee+spouse premium while every event is the first member's
ZeroUsageSpouseChangesTier ==
    /\ pc = "done"
    /\ Len(members) = 2
    /\ members[2].id \in ZeroUsageMemberIds
    /\ Len(progression) = 1
    /\ progression[1].memberId = members[1].id
    /\ progression[1].coverageType = "employee+spouse"
    /\ progression[1].monthlyPremium = plan.spousePremium
    /\ plan.spousePremium # plan.monthlyPremium

----------------------------------------------------------------------------
(* SpecApp: the application after initializeComponents.  The managers change *)
(* their data, and App.recalculate is invoked by the debounce timer, by the  *)
(* 'recalculate' event or after an import.  calculateAll has no await, so    *)
(* the continuation of recalculate runs before any other task.               *)

\* if (this.calculationCount > 50)
MaxCalculations == 50

AppPlanLists == {<<>>, <<CalcPlanA>>, <<CalcPlanA, CalcPlanB>>}

AppMemberLists == {<<>>, CalcFamilyOne.members, CalcFamilyInactive.members}

AppCostTables ==
    {DefaultServiceCosts, [DefaultServiceCosts EXCEPT !.primaryVisit = Dollars(200)]}

\* FamilyManager.getFamilyData: the active members
GetFamilyData == [members |-> SelectSeq(familyManagerMembers, IsActive)]

\* ServiceCostManager.getServiceCosts
GetServiceCosts == [serviceCosts |-> serviceCostManagerCosts, costArea |-> "medium"]

\* { ...familyData, ...serviceCosts }
FamilyDataWithCosts ==
    [members |-> GetFamilyData.members,
     serviceCosts |-> GetServiceCosts.serviceCosts,
     costArea |-> GetServiceCosts.costArea]

InitApp ==
    /\ EngineIdle
    /\ CalcIdle
    /\ SiteIdle
    /\ isCalculating = FALSE
    /\ calculationCount = 0
    /\ planManagerPlans \in AppPlanLists
    /\ familyManagerMembers \in AppMemberLists
    /\ serviceCostManagerCosts \in AppCostTables
    /\ displayed = [kind |-> "none"]
    /\ recalcPc = "idle"

\* PlanManager: the plans are edited, added, removed or imported
PlansChanged ==
    /\ recalcPc = "idle"
    /\ \E newPlans \in AppPlanLists \ {planManagerPlans} : planManagerPlans' = newPlans
    /\ UNCHANGED <<engineVars, calcVars, siteVars, isCalculating, calculationCount,
                   familyManagerMembers, serviceCostManagerCosts, displayed, recalcPc>>

\* FamilyManager: the members are edited, added, removed or imported
FamilyChanged ==
    /\ recalcPc = "idle"
    /\ \E newMembers \in AppMemberLists \ {familyManagerMembers} :
          familyManagerMembers' = newMembers
    /\ UNCHANGED <<engineVars, calcVars, siteVars, isCalculating, calculationCount,
                   planManagerPlans, serviceCostManagerCosts, displayed, recalcPc>>

\* ServiceCostManager: a cost is edited or the table imported
ServiceCostsChanged ==
    /\ recalcPc = "idle"
    /\ \E newCosts \in AppCostTables \ {serviceCostManagerCosts} :
          serviceCostManagerCosts' = newCosts
    /\ UNCHANGED <<engineVars, calcVars, siteVars, isCalculating, calculationCount,
                   planManagerPlans, familyManagerMembers, displayed, recalcPc>>

\* the call this.calculator.calculateAll(plans, familyDataWithCosts)
AppCallsCalculateAll ==
    /\ callPlans' = planManagerPlans
    /\ callFamily' = FamilyDataWithCosts
    /\ callFaults' = {}
    /\ \E run \in {CalculateAllRun(planManagerPlans, FamilyDataWithCosts, {},
                                    lastUsageTable, lastPlanProgressions)} :
          /\ outcome' = run.outcome
          /\ lastUsageTable' = run.lastUsageTable
          /\ lastPlanProgressions' = run.lastPlanProgressions

\* App.recalculate, from its invocation to the await of calculateAll or to
\* its return (the managers are set after initializeComponents)
Recalculate ==
    /\ recalcPc = "idle"
    /\ calculationCount < MaxInvocations
    /\ IF isCalculating
       THEN UNCHANGED <<calcVars, appVars>>
       ELSE /\ calculationCount' = calculationCount + 1
            /\ IF calculationCount + 1 > MaxCalculations
               THEN UNCHANGED <<calcVars, isCalculating, displayed, recalcPc>>
               ELSE IF Len(planManagerPlans) = 0
               THEN /\ displayed' = [kind |-> "noPlans"]
                    /\ isCalculating' = FALSE
                    /\ UNCHANGED <<calcVars, recalcPc>>
               ELSE /\ isCalculating' = TRUE
                    /\ recalcPc' = "awaitCalculateAll"
                    /\ AppCallsCalculateAll
                    /\ UNCHANGED displayed
    /\ UNCHANGED <<engineVars, siteVars, planManagerPlans, familyManagerMembers,
                   serviceCostManagerCosts>>

\* App.recalculate after the await: displayResults, or showError in the catch
\* block, and the finally block
ResumeRecalculate ==
    /\ recalcPc = "awaitCalculateAll"
    /\ displayed' = IF outcome.threw
                    THEN [kind |-> "error"]
                    ELSE [kind |-> "results", results |-> outcome.value]
    /\ isCalculating' = FALSE
    /\ recalcPc' = "idle"
    /\ UNCHANGED <<engineVars, calcVars, siteVars, calculationCount, planManagerPlans,
                   familyManagerMembers, serviceCostManagerCosts>>

NextApp ==
    \/ PlansChanged
    \/ FamilyChanged
    \/ ServiceCostsChanged
    \/ Recalculate
    \/ ResumeRecalculate

SpecApp == InitApp /\ [][NextApp]_vars

\* an invocation of recalculate that found no calculation in progress
RecalculateInvoked == ~isCalculating /\ calculationCount' = calculationCount + 1

\* C20: every invocation of recalculate made while no calculation is in
\* progress and with at least one plan calls calculateAll with the latest
\* plans, family data and service costs and then displays the results or an
\* error, and isCalculating is false once the invocation has returned
RecalculateAlwaysCalculates ==
    [][/\ (RecalculateInvoked /\ Len(planManagerPlans) >= 1)
            => /\ recalcPc' = "awaitCalculateAll"
               /\ callPlans' = planManagerPlans
               /\ callFamily' = FamilyDataWithCosts
       /\ (recalcPc = "awaitCalculateAll" /\ recalcPc' = "idle")
            => /\ displayed'.kind \in {"results", "error"}
               /\ displayed'.kind = "results" => displayed'.results = outcome.value
       /\ recalcPc' = "idle" => ~isCalculating']_vars

----------------------------------------------------------------------------
(* The pdf-analysis endpoint: api/analyze-pdf.js behind api/utils/rateLimiter.js.
   The store of the rate limiter is the module-level Map memoryStore, so every
   function instance (every cold start) has a store of its own.  Inside one
   instance a handler runs from its start to await callLLMAPI without another
   handler running in between: every promise it awaits before that is already
   settled, and their continuations are microtasks of the task that started
   the handler. *)

\* requests the clients send in one run
MaxRequests == 6

\* function instances started in one run
MaxInstances == 2

\* hours the clock advances in one run
MaxHours == 1

HourMs == 60 * 60 * 1000

DayMs == 24 * 60 * 60 * 1000

ClientIPs == {"203.0.113.7", "198.51.100.9"}

RATE_LIMITS ==
    [operation \in {"pdf-analysis"} |-> [requests |-> 5, windowMs |-> 3600000, cost |-> 1]]

DAILY_BUDGET == [perIP |-> 10, global |-> 1000]

\* Math.floor(now / config.windowMs) * config.windowMs
WindowStart(t, operation) ==
    (t \div RATE_LIMITS[operation].windowMs) * RATE_LIMITS[operation].windowMs

DailyStart(t) == (t \div DayMs) * DayMs

\* `rate_limit:${clientIP}:${operation}:${windowStart}`
HourlyKey(clientIP, operation, t) ==
    [kind |-> "rate_limit", clientIP |-> clientIP, operation |-> operation,
     start |-> WindowStart(t, operation)]

\* `daily_usage:${clientIP}:${dailyStart}`
DailyKey(clientIP, t) ==
    [kind |-> "daily_usage", clientIP |-> clientIP, operation |-> "",
     start |-> DailyStart(t)]

\* `global_daily:${dailyStart}`
GlobalDailyKey(t) ==
    [kind |-> "global_daily", clientIP |-> "", operation |-> "", start |-> DailyStart(t)]

\* new Map()
EmptyStore == [key \in {} |-> 0]

\* memoryStore.get(key) || 0
StoreGet(store, key) == IF key \in DOMAIN store THEN Or(store[key], 0) ELSE 0

\* memoryStore.set(key, value)
StoreSet(store, key, value) ==
    [k \in DOMAIN store \cup {key} |-> IF k = key THEN value ELSE store[k]]

\* memoryStore.delete(key)
StoreDelete(store, key) == [k \in DOMAIN store \ {key} |-> store[k]]

GetCurrentUsage(store, hourlyKey, dailyKey, globalDailyKey) ==
    [hourly |-> StoreGet(store, hourlyKey),
     dailyIP |-> StoreGet(store, dailyKey),
     globalDaily |-> StoreGet(store, globalDailyKey)]

\* checkRateLimit: reads the store, changes nothing
CheckRateLimit(store, clientIP, operation, t) ==
    LET config == RATE_LIMITS[operation]
        usage == GetCurrentUsage(store, HourlyKey(clientIP, operation, t),
                                 DailyKey(clientIP, t), GlobalDailyKey(t))
    IN  IF usage.hourly >= config.requests
        THEN [allowed |-> FALSE, reason |-> "RATE_LIMIT_EXCEEDED"]
        ELSE IF usage.dailyIP + config.cost > DAILY_BUDGET.perIP
        THEN [allowed |-> FALSE, reason |-> "DAILY_BUDGET_EXCEEDED"]
        ELSE IF usage.globalDaily + config.cost > DAILY_BUDGET.global
        THEN [allowed |-> FALSE, reason |-> "GLOBAL_BUDGET_EXCEEDED"]
        ELSE [allowed |-> TRUE, reason |-> ""]

\* incrementUsage without its timer
IncrementUsage(store, key) == StoreSet(store, key, StoreGet(store, key) + 1)

\* incrementDailyUsage without its timer
IncrementDailyUsage(store, key, cost) == StoreSet(store, key, StoreGet(store, key) + cost)

\* recordUsage: the three increments
RecordUsage(store, clientIP, operation, t) ==
    IncrementDailyUsage(
        IncrementDailyUsage(
            IncrementUsage(store, HourlyKey(clientIP, operation, t)),
            DailyKey(clientIP, t), RATE_LIMITS[operation].cost),
        GlobalDailyKey(t), RATE_LIMITS[operation].cost)

\* the setTimeout calls of the three increments of one recordUsage
RecordUsageTimers(instance, clientIP, operation, t) ==
    {[instance |-> instance, key |-> HourlyKey(clientIP, operation, t),
      due |-> t + RATE_LIMITS[operation].windowMs],
     [instance |-> instance, key |-> DailyKey(clientIP, t), due |-> t + DayMs],
     [instance |-> instance, key |-> GlobalDailyKey(t), due |-> t + DayMs]}

\* requests received so far: answered, or suspended in await callLLMAPI
RequestsMade == inFlight + responses.sent

\* res.status(status): one more response, and the status of the latest one
Respond(status) == responses' = [sent |-> responses.sent + 1, status |-> status]

InitRateLimit ==
    /\ EngineIdle
    /\ CalcIdle
    /\ AppIdle
    /\ EmitterIdle
    /\ ExportIdle
    /\ now = 0
    /\ memoryStore = <<>>
    /\ timers = {}
    /\ reachedLLM = [key \in {HourlyKey(ip, "pdf-analysis", h * HourMs) :
                                  ip \in ClientIPs, h \in 0..MaxHours} |-> 0]
    /\ responses = [sent |-> 0, status |-> 0]
    /\ inFlight = 0

\* a cold start: the module is loaded in a new instance, const memoryStore = new Map()
ColdStart ==
    /\ Len(memoryStore) < MaxInstances
    /\ memoryStore' = Append(memoryStore, EmptyStore)
    /\ UNCHANGED <<engineVars, calcVars, appVars, emitterVars, exportVars, now, timers, reachedLLM,
                   responses, inFlight>>

\* time passes
ClockAdvances ==
    /\ now < MaxHours * HourMs
    /\ now' = now + HourMs
    /\ UNCHANGED <<engineVars, calcVars, appVars, emitterVars, exportVars, memoryStore, timers,
                   reachedLLM, responses, inFlight>>

\* the callback of a setTimeout of incrementUsage or incrementDailyUsage
TimerFires ==
    /\ \E timer \in timers :
          /\ now >= timer.due
          /\ memoryStore' = [memoryStore EXCEPT ![timer.instance] = StoreDelete(@, timer.key)]
          /\ timers' = timers \ {timer}
    /\ UNCHANGED <<engineVars, calcVars, appVars, emitterVars, exportVars, now, reachedLLM, responses,
                   inFlight>>

\* handler(req, res) in one instance, from its start to its response or to
\* await callLLMAPI
Handler ==
    /\ RequestsMade < MaxRequests
    /\ \E instance \in 1..Len(memoryStore), clientIP \in ClientIPs,
          method \in {"POST", "OPTIONS", "GET"}, available \in BOOLEAN, hasPdfText \in BOOLEAN :
          IF method = "OPTIONS"
          THEN /\ Respond(200)
               /\ UNCHANGED <<memoryStore, timers, reachedLLM, inFlight>>
          ELSE IF method # "POST"
          THEN /\ Respond(405)
               /\ UNCHANGED <<memoryStore, timers, reachedLLM, inFlight>>
          ELSE IF ~CheckRateLimit(memoryStore[instance], clientIP, "pdf-analysis", now).allowed
          THEN /\ Respond(429)
               /\ UNCHANGED <<memoryStore, timers, reachedLLM, inFlight>>
          ELSE IF ~available
          THEN /\ Respond(503)
               /\ UNCHANGED <<memoryStore, timers, reachedLLM, inFlight>>
          ELSE IF ~hasPdfText
          THEN /\ Respond(400)
               /\ UNCHANGED <<memoryStore, timers, reachedLLM, inFlight>>
          ELSE /\ memoryStore' =
                      [memoryStore EXCEPT
                          ![instance] = RecordUsage(@, clientIP, "pdf-analysis", now)]
               /\ timers' = timers \cup
                               RecordUsageTimers(instance, clientIP, "pdf-analysis", now)
               /\ reachedLLM' =
                      [reachedLLM EXCEPT ![HourlyKey(clientIP, "pdf-analysis", now)] = @ + 1]
               /\ inFlight' = inFlight + 1
               /\ UNCHANGED responses
    /\ UNCHANGED <<engineVars, calcVars, appVars, emitterVars, exportVars, now>>

\* callLLMAPI settles and the handler resumes: 200 with the parsed analysis,
\* or the catch block and 500
LLMReturns ==
    /\ inFlight > 0
    /\ inFlight' = inFlight - 1
    /\ \E succeeded \in BOOLEAN : Respond(IF succeeded THEN 200 ELSE 500)
    /\ UNCHANGED <<engineVars, calcVars, appVars, emitterVars, exportVars, now, memoryStore, timers,
                   reachedLLM>>

NextRateLimit ==
    \/ ColdStart
    \/ ClockAdvances
    \/ TimerFires
    \/ Handler
    \/ LLMReturns

SpecRateLimit == InitRateLimit /\ [][NextRateLimit]_vars

\* C21: for any interleaving of the pdf-analysis requests of one client IP in
\* one hourly window, at most 5 of them pass the rate-limit check and reach
\* the LLM call (the 6th and later ones are answered 429 instead)
AtMostFiveAnalysesPerWindow ==
    \A key \in DOMAIN reachedLLM : reachedLLM[key] <= RATE_LIMITS["pdf-analysis"].requests

----------------------------------------------------------------------------
(* The calculation audit: exportCalculationWorksheets and
   generateProgressionCSV, run on the table and the progressions the last
   calculateAll stored.  A data row is modelled by its cells before
   row.join(','); the Date_Approx and Member_Name cells and the header line
   are left out. *)

\* one member with a visit and lab work on the same day and two medications
CalcFamilySameDay ==
    [members |-> <<RawMember("m1", "self", 35, 1, 1,
                             <<GenericMedication,
                               [tier |-> Num(1), monthlyCost |-> Num(Dollars(80))]>>)>>,
     serviceCosts |-> DefaultServiceCosts]

\* two adults, each with a visit on the same day and one with a medication
CalcFamilyTwoSameDay ==
    [members |-> <<RawMember("m1", "self", 35, 1, 0, <<GenericMedication>>),
                   RawMember("m2", "spouse", 33, 1, 0, <<>>)>>,
     serviceCosts |-> DefaultServiceCosts]

ExportInputs ==
    ValidPlanLists
        \X {CalcFamilyOne, CalcFamilyNoUsage, CalcFamilySameDay, CalcFamilyTwoSameDay}

\* Math.round of a non-negative amount
MathRound(x) == ((x + 50) \div 100) * 100

\* [...new Set(firstProgression.map(row => row.memberId))]
RECURSIVE UniqueMemberIds(_)
UniqueMemberIds(rows) ==
    IF rows = <<>> THEN <<>>
    ELSE LET before == UniqueMemberIds(SubSeq(rows, 1, Len(rows) - 1))
             id == rows[Len(rows)].memberId
         IN  IF \E i \in 1..Len(before) : before[i] = id
             THEN before
             ELSE Append(before, id)

\* usageEvent.medicationName, p.medicationName: undefined on a medical event;
\* the medications of the model carry no name, which gives 'Unknown'
MedicationNameOf(e) == IF e.eventType = "medication" THEN "Unknown" ELSE "undefined"

\* the predicate of progression.find
MatchesEvent(p, usageEvent) ==
    /\ p.day = usageEvent.day
    /\ p.memberId = usageEvent.memberId
    /\ p.eventType = usageEvent.eventType
    /\ (p.serviceType = usageEvent.serviceType
        \/ MedicationNameOf(p) = MedicationNameOf(usageEvent))

\* progression.find(..): the index of the first row that matches, 0 for undefined
FindMatchingRow(planProgression, usageEvent) ==
    IF \E i \in 1..Len(planProgression) : MatchesEvent(planProgression[i], usageEvent)
    THEN CHOOSE i \in 1..Len(planProgression) :
            /\ MatchesEvent(planProgression[i], usageEvent)
            /\ \A j \in 1..(i - 1) : ~MatchesEvent(planProgression[j], usageEvent)
    ELSE 0

\* progression.filter(p => p.memberId === memberId && p.day <= usageEvent.day)
\* .slice(-1)[0]: the index of that row, 0 for undefined
OtherMemberRow(planProgression, memberId, usageEvent) ==
    LET upTo == {i \in 1..Len(planProgression) :
                    /\ planProgression[i].memberId = memberId
                    /\ planProgression[i].day <= usageEvent.day}
    IN  IF upTo = {} THEN 0 ELSE CHOOSE i \in upTo : \A j \in upTo : j <= i

\* the two cells of one member in the column group of a plan
MemberCells(planProgression, matching, memberId, usageEvent) ==
    IF memberId = usageEvent.memberId
    THEN <<MathRound(Or(planProgression[matching].individualDeductibleUsed, 0)),
           MathRound(Or(planProgression[matching].individualOOPUsed, 0))>>
    ELSE LET other == OtherMemberRow(planProgression, memberId, usageEvent)
         IN  IF other = 0
             THEN <<MathRound(0), MathRound(0)>>
             ELSE <<MathRound(Or(planProgression[other].individualDeductibleUsed, 0)),
                    MathRound(Or(planProgression[other].individualOOPUsed, 0))>>

\* the cells of one plan in the data row of usageEvent
PlanCells(planProgression, memberIds, usageEvent) ==
    LET matching == FindMatchingRow(planProgression, usageEvent)
    IN  IF matching # 0
        THEN <<Or(planProgression[matching].eventCost, 0),
               MathRound(Or(planProgression[matching].cumulativePremium, 0)),
               MathRound(Or(planProgression[matching].cumulativeOOP, 0)),
               MathRound(Or(planProgression[matching].cumulativeTotal, 0)),
               MathRound(Or(planProgression[matching].familyDeductibleUsed, 0)),
               MathRound(Or(planProgression[matching].familyOOPUsed, 0))>>
             \o Concat([m \in 1..Len(memberIds) |->
                           MemberCells(planProgression, matching, memberIds[m], usageEvent)])
        ELSE [i \in 1..(6 + Len(memberIds) * 2) |-> 0]

\* one iteration of for (const usageEvent of this.lastUsageTable): the event
\* cells and the cells of every plan, in the order of Object.keys
ProgressionCSVRow(progressions, usageEvent) ==
    LET planIds == progressions.order
        memberIds == UniqueMemberIds(progressions.byId[planIds[1]])
    IN  [day |-> usageEvent.day,
         memberId |-> usageEvent.memberId,
         eventType |-> usageEvent.eventType,
         serviceType |-> usageEvent.serviceType,
         grossCost |-> Or(usageEvent.grossCost, 0),
         plans |-> [i \in 1..Len(planIds) |->
                       PlanCells(progressions.byId[planIds[i]], memberIds, usageEvent)]]

\* calculateAll with some plans and some family, before any export
ExportCalculate ==
    /\ exportPc = "idle"
    /\ "none" \in DOMAIN outcome
    /\ \E input \in ExportInputs : CalculateAll(input[1], input[2], {})
    /\ UNCHANGED exportVars

\* exportCalculationWorksheets up to the loop of generateProgressionCSV:
\* null without stored data, '' without plans, the catch block when
\* planProgression[0] is undefined
ExportBegin ==
    /\ exportPc = "idle"
    /\ exportPc' =
          IF "undefined" \in DOMAIN lastUsageTable \/ "undefined" \in DOMAIN lastPlanProgressions
          THEN "noData"
          ELSE IF Len(lastPlanProgressions.order) = 0
          THEN "exported"
          ELSE IF \E id \in DOMAIN lastPlanProgressions.byId :
                     lastPlanProgressions.byId[id] = <<>>
          THEN "failed"
          ELSE "rows"
    /\ csvRows' = <<>>
    /\ UNCHANGED <<engineVars, calcVars, appVars, serverVars, emitterVars>>

\* one iteration of the loop over this.lastUsageTable
ExportRow ==
    /\ exportPc = "rows"
    /\ Len(csvRows) < Len(lastUsageTable.events)
    /\ csvRows' = Append(csvRows,
                         ProgressionCSVRow(lastPlanProgressions,
                                           lastUsageTable.events[Len(csvRows) + 1]))
    /\ UNCHANGED <<engineVars, calcVars, appVars, serverVars, emitterVars, exportPc>>

\* the loop is over: csvRows.join and the download
ExportEnd ==
    /\ exportPc = "rows"
    /\ Len(csvRows) = Len(lastUsageTable.events)
    /\ exportPc' = "exported"
    /\ UNCHANGED <<engineVars, calcVars, appVars, serverVars, emitterVars, csvRows>>

NextExport ==
    \/ ExportCalculate
    \/ ExportBegin
    \/ ExportRow
    \/ ExportEnd

SpecExport == InitCalc /\ [][NextExport]_vars

\* the cells a progression row gives the column group of its plan: the six
\* family cells and the two cells of the member of the event
CellsOfProgressionRow(row) ==
    <<row.eventCost, MathRound(row.cumulativePremium), MathRound(row.cumulativeOOP),
      MathRound(row.cumulativeTotal), MathRound(row.familyDeductibleUsed),
      MathRound(row.familyOOPUsed), MathRound(row.individualDeductibleUsed),
      MathRound(row.individualOOPUsed)>>

\* the same eight cells as the k-th data row holds them for the i-th plan
CellsOfDataRow(k, i) ==
    LET memberIds == UniqueMemberIds(lastPlanProgressions.byId[lastPlanProgressions.order[1]])
        m == CHOOSE m \in 1..Len(memberIds) : memberIds[m] = csvRows[k].memberId
    IN  SubSeq(csvRows[k].plans[i], 1, 6)
        \o SubSeq(csvRows[k].plans[i], 6 + 2 * m - 1, 6 + 2 * m)

\* C22: the exported audit has one data row per event of the last timeline,
\* and for every plan the column group of the k-th data row holds the values
\* of the k-th row of that plan's progression, also when several events share
\* day, member and event type
AuditRowsFollowProgressions ==
    exportPc = "exported" /\ Len(lastPlanProgressions.order) > 0 =>
        /\ Len(csvRows) = Len(lastUsageTable.events)
        /\ \A k \in 1..Len(csvRows) :
              \A i \in 1..Len(lastPlanProgressions.order) :
                 CellsOfDataRow(k, i) =
                    CellsOfProgressionRow(
                        lastPlanProgressions.byId[lastPlanProgressions.order[i]][k])

----------------------------------------------------------------------------
(* The family out-of-pocket accumulator, checked under Spec *)

\* C23: the family cap works like the individual cap: in every progression
\* row familyOOPUsed, the running sum of the charged eventCost of all
\* members, is at most the family out-of-pocket maximum, so an event that
\* would take the family over the maximum is charged only the remainder and
\* later events are charged 0
FamilyOOPUsedWithinFamilyMax ==
    (Len(progression) > 0 /\ StatedFamilyOOPMax > 0) =>
        /\ LastRow.familyOOPUsed <= StatedFamilyOOPMax
        /\ LastRow.eventCost <=
              StatedFamilyOOPMax - (LastRow.familyOOPUsed - LastRow.eventCost)

----------------------------------------------------------------------------
(* The deductible pool of a medication event, checked under Spec *)

\* C24: a medication event draws from exactly one deductible pool: with
\* plan.rxDeductible > 0 it changes only familyRxDeductibleUsed, never above
\* rxDeductible, and leaves familyDeductibleUsed and every
\* individualDeductibleUsed as they were; with rxDeductible 0 or unset it
\* draws the same amount from the family and the member's medical
\* deductible and familyRxDeductibleUsed stays 0; a medical event never
\* changes familyRxDeductibleUsed
MedicationDrawsFromOnePool ==
    [][EventProcessed =>
        /\ (NextEvent.eventType = "medication" /\ plan.rxDeductible > 0) =>
              /\ familyState'.deductibleUsed = familyState.deductibleUsed
              /\ \A id \in DOMAIN memberStates :
                    memberStates'[id].deductibleUsed = memberStates[id].deductibleUsed
              /\ familyState'.rxDeductibleUsed >= familyState.rxDeductibleUsed
              /\ familyState'.rxDeductibleUsed <= plan.rxDeductible
        /\ (NextEvent.eventType = "medication" /\ plan.rxDeductible = 0) =>
              /\ familyState'.rxDeductibleUsed = 0
              /\ familyState'.deductibleUsed - familyState.deductibleUsed
                    = memberStates'[NextEvent.memberId].deductibleUsed
                         - memberStates[NextEvent.memberId].deductibleUsed
              /\ \A id \in DOMAIN memberStates \ {NextEvent.memberId} :
                    memberStates'[id].deductibleUsed = memberStates[id].deductibleUsed
        /\ NextEvent.eventType = "medical" =>
              familyState'.rxDeductibleUsed = familyState.rxDeductibleUsed]_vars

\* a year under a separate Rx deductible in which the refills used up the Rx
\* deductible, a visit drew from the medical deductible, and a later refill
\* left the medical deductible where the visit had put it
BothPoolsDrawnSeparately ==
    /\ pc = "done"
    /\ plan.rxDeductible > 0
    /\ Len(progression) > 0
    /\ LastRow.familyRxDeductibleUsed = plan.rxDeductible
    /\ LastRow.familyDeductibleUsed > 0
    /\ \E k \in 2..Len(progression) :
          /\ progression[k].eventType = "medication"
          /\ progression[k - 1].eventType = "medical"
          /\ progression[k].familyDeductibleUsed = progression[k - 1].familyDeductibleUsed
          /\ progression[k].familyDeductibleUsed > 0

----------------------------------------------------------------------------
(* Copay and coinsurance of a medical event, checked under Spec *)

\* the copay the plan defines for the service of the next event, 0 when it
\* defines none: primary and specialist visits have their own, a therapy
\* session has the mental health copay or else the primary one
CopayOfNextService ==
    CASE NextEvent.serviceType = "primaryVisit" -> plan.primaryCopay
      [] NextEvent.serviceType = "specialistVisit" -> plan.specialistCopay
      [] NextEvent.serviceType = "therapySession" ->
            IF plan.mentalHealthCopay > 0 THEN plan.mentalHealthCopay ELSE plan.primaryCopay
      [] OTHER -> 0

\* the price of the cost rest that is left above the deductible portion
CopayOrCoinsurance(rest) ==
    IF CopayOfNextService > 0
    THEN Min(CopayOfNextService, rest)
    ELSE Mul(rest, plan.coinsurance)

\* C25: for a medical event, what is left of the gross cost above the
\* deductible portion is priced by the copay of the service when the plan
\* has a positive one, never more than the cost being priced, and by
\* cost x coinsurance otherwise; with a copay and a coinsurance rate the
\* copay is used (checked on the member cost before the out-of-pocket caps)
RestPricedByCopayOrCoinsurance ==
    [][(EventProcessed /\ NextEvent.eventType = "medical")
       => eventResult'.memberCost
             = Min(NextEvent.grossCost, RemainingDeductibleBefore)
               + CopayOrCoinsurance(NextEvent.grossCost
                                    - Min(NextEvent.grossCost, RemainingDeductibleBefore))]_vars

\* the scenario after its four events: the primary visit paid the $100
\* deductible and the $30 copay, the specialist visit its full $250 under a
\* $400 copay, the therapy session the $30 primary copay, and the lab test
\* 20% of $200
CopayScenarioCharged ==
    /\ <<rawPlan, rawFamily>> = CopayScenario
    /\ pc = "done"
    /\ Len(progression) = 4
    /\ plan.coinsurance > 0
    /\ progression[1].serviceType = "primaryVisit"
    /\ progression[1].eventCost = Dollars(130)
    /\ progression[2].serviceType = "specialistVisit"
    /\ progression[2].eventCost = Dollars(250)
    /\ progression[3].serviceType = "therapySession"
    /\ progression[3].eventCost = Dollars(30)
    /\ progression[4].serviceType = "labWork"
    /\ progression[4].eventCost = Dollars(40)

----------------------------------------------------------------------------
(* The days of the service events, checked under SpecSchedule *)

\* the annual count of the service type of an event of the first member
CountOfService(type) ==
    LET s == CHOOSE s \in 1..6 : AnnualServices(members[1])[s].type = type
    IN  AnnualServices(members[1])[s].count

\* floor((365/N)*i + (365/N)/2) with 365/N as an exact quotient, which is
\* floor(365 * (2i + 1) / 2N)
CentreOfInterval(N, i) == (365 * (2 * i + 1)) \div (2 * N)

\* C26: for a service with annual count N > 0, generateFamilyUsageTimeline
\* pushes exactly N events, and the i-th of them (from 0) has the day
\* floor((365/N)*i + (365/N)/2), 365/N being the exact quotient
ServiceDaysCentredInIntervals ==
    /\ (Len(usageTable) > 0 /\ usageTable[Len(usageTable)].eventType = "medical") =>
          usageTable[Len(usageTable)].day =
             CentreOfInterval(
                 CountOfService(usageTable[Len(usageTable)].serviceType),
                 PushedOfType(usageTable, usageTable[Len(usageTable)].serviceType) - 1)
    /\ pc = "sortEvents" =>
          \A s \in 1..6 :
             PushedOfType(usageTable, AnnualServices(members[1])[s].type)
                = AnnualServices(members[1])[s].count

----------------------------------------------------------------------------
(* The medication events, checked under SpecSchedule *)

\* a medication as the family manager holds it, with a monthlyCost above 0
HasPositiveMonthlyCost(rawMedication) ==
    /\ "monthlyCost" \in DOMAIN rawMedication
    /\ rawMedication.monthlyCost.t = "number"
    /\ rawMedication.monthlyCost.n > 0

IsMedicationEvent(e) == e.eventType = "medication"

\* C27: when generateFamilyUsageTimeline has pushed its events, every
\* medication with monthlyCost > 0 has exactly 12 medication events, one per
\* month m in 0..11 on day m*30 + 1 and with its monthlyCost as grossCost; a
\* medication with a missing, zero or negative monthlyCost has none, and a
\* service with count 0 has none
MedicationsEmitTwelveEvents ==
    pc = "sortEvents" =>
        LET costed == SelectSeq(rawFamily.members[1].medications, HasPositiveMonthlyCost)
            pushed == SelectSeq(usageTable, IsMedicationEvent)
        IN  /\ Len(pushed) = 12 * Len(costed)
            /\ \A k \in 1..Len(costed) :
                  \A m \in 0..11 :
                     /\ pushed[12 * (k - 1) + m + 1].day = m * 30 + 1
                     /\ pushed[12 * (k - 1) + m + 1].grossCost = costed[k].monthlyCost.n
            /\ \A s \in 1..6 :
                  AnnualServices(members[1])[s].count = 0 =>
                     PushedOfType(usageTable, AnnualServices(members[1])[s].type) = 0

\* the loops are over for a member without visits whose list has a
\* medication of $50, one without monthlyCost and one of $80: 24 events
TwoOfThreeMedicationsPushed ==
    /\ pc = "sortEvents"
    /\ Len(rawFamily.members[1].medications) = 3
    /\ "monthlyCost" \notin DOMAIN rawFamily.members[1].medications[2]
    /\ members[1].primaryVisits = 0
    /\ Len(usageTable) = 24
    /\ usageTable[13].grossCost = Dollars(80)
    /\ usageTable[24].day = 331

----------------------------------------------------------------------------
(* The monthly series of a plan result, checked under Spec *)

\* C28: the 12 entries of monthlyAccumulation of a plan result never
\* decrease from month 1 to month 12: a month without usage events carries
\* the cumulative out-of-pocket value of the month before
MonthlyAccumulationNeverDecreases ==
    (pc = "done" /\ "monthlyAccumulation" \in DOMAIN result) =>
        \A m \in 1..11 :
            result.monthlyAccumulation[m].totalCost
               <= result.monthlyAccumulation[m + 1].totalCost

----------------------------------------------------------------------------
(* The family and the individual deductible accumulators, checked under Spec *)

\* the sum of the deductibleUsed of all members
RECURSIVE SumOfIndividualDeductibles(_, _)
SumOfIndividualDeductibles(states, ids) ==
    IF ids = {} THEN 0
    ELSE LET id == CHOOSE id \in ids : TRUE
         IN  states[id].deductibleUsed + SumOfIndividualDeductibles(states, ids \ {id})

\* C29: after every event the family deductible accumulator equals the sum
\* of the individual deductible accumulators of all members, as every row of
\* the progression records them: what is applied to a member's deductible
\* is applied to the family deductible in the same step, and nothing else
\* changes either of them
FamilyDeductibleIsSumOfIndividual ==
    /\ pc \in {"processEvents", "done"} =>
          familyState.deductibleUsed
             = SumOfIndividualDeductibles(memberStates, DOMAIN memberStates)
    /\ (pc \in {"processEvents", "done"} /\ Len(progression) > 0) =>
          /\ LastRow.familyDeductibleUsed = familyState.deductibleUsed
          /\ LastRow.individualDeductibleUsed
                = memberStates[LastRow.memberId].deductibleUsed

\* a year in which two members each paid toward their own deductible
TwoMembersPaidDeductible ==
    /\ pc = "done"
    /\ Cardinality({id \in DOMAIN memberStates : memberStates[id].deductibleUsed > 0}) = 2
    /\ familyState.deductibleUsed > 0

----------------------------------------------------------------------------
(* EventEmitter: the listeners of one event.  A listener is the function
   this.events[event] holds: the callback given to on, or the wrapper once
   builds around its callback.  A callback returns, throws, or emits the
   same event again the first time it is called. *)

\* listeners registered in one run
MaxListeners == 2

\* emit calls made from outside a callback in one run
MaxEmits == 3

CallbackBehaviours == {"returns", "throws", "emits"}

\* this.events[event].filter(cb => cb !== callback)
RECURSIVE FilterOut(_, _)
FilterOut(listeners, id) ==
    IF listeners = <<>> THEN <<>>
    ELSE IF Head(listeners) = id
         THEN FilterOut(Tail(listeners), id)
         ELSE <<Head(listeners)>> \o FilterOut(Tail(listeners), id)

\* off(event, callback)
Off(listeners, id) == FilterOut(listeners, id)

\* the frame of an emit call: the array forEach walks and the next index
EmitFrame(listeners) == [kind |-> "emit", listeners |-> listeners, index |-> 1, id |-> 0]

\* the frame of a wrapper of once whose callback has not returned yet
WrapperFrame(id) == [kind |-> "wrapper", listeners |-> <<>>, index |-> 0, id |-> id]

InitEmitter ==
    /\ EngineIdle
    /\ CalcIdle
    /\ AppIdle
    /\ ServerIdle
    /\ ExportIdle
    /\ EmitterIdle

\* on(event, callback) and once(event, callback), called from outside a callback
Register ==
    /\ callStack = <<>>
    /\ Len(invocations) < MaxListeners
    /\ \E once \in BOOLEAN, behaviour \in CallbackBehaviours :
          invocations' = Append(invocations,
                                [once |-> once, behaviour |-> behaviour, count |-> 0])
    /\ emitterEvents' = Append(emitterEvents, Len(invocations) + 1)
    /\ UNCHANGED <<engineVars, calcVars, appVars, serverVars, exportVars, callStack, emitCount>>

\* off(event, callback), or the unsubscribe function on returns, called from
\* outside a callback
Unsubscribe ==
    /\ callStack = <<>>
    /\ \E i \in 1..Len(emitterEvents) :
          emitterEvents' = Off(emitterEvents, emitterEvents[i])
    /\ UNCHANGED <<engineVars, calcVars, appVars, serverVars, exportVars, callStack,
                   invocations, emitCount>>

\* emit(event, data) called from outside a callback
Emit ==
    /\ callStack = <<>>
    /\ emitCount < MaxEmits
    /\ emitCount' = emitCount + 1
    /\ callStack' = <<EmitFrame(emitterEvents)>>
    /\ UNCHANGED <<engineVars, calcVars, appVars, serverVars, exportVars, emitterEvents,
                   invocations>>

\* one iteration of forEach in emit: the listener is called inside try/catch.
\* A wrapper calls its callback and then this.off(event, wrapper); when the
\* callback throws, the exception leaves the wrapper before off and is
\* caught by emit; when the callback emits, the inner emit runs first
CallListener ==
    /\ callStack # <<>>
    /\ LET frame == callStack[Len(callStack)]
           id == frame.listeners[frame.index]
           callee == invocations[id]
           advanced == [callStack EXCEPT ![Len(callStack)].index = @ + 1]
       IN  /\ frame.kind = "emit"
           /\ frame.index <= Len(frame.listeners)
           /\ invocations' = [invocations EXCEPT ![id].count = @ + 1]
           /\ IF callee.behaviour = "emits" /\ callee.count = 0
              THEN /\ callStack' =
                         IF callee.once
                         THEN advanced \o <<WrapperFrame(id), EmitFrame(emitterEvents)>>
                         ELSE advanced \o <<EmitFrame(emitterEvents)>>
                   /\ UNCHANGED emitterEvents
              ELSE /\ callStack' = advanced
                   /\ emitterEvents' =
                         IF callee.once /\ callee.behaviour # "throws"
                         THEN Off(emitterEvents, id)
                         ELSE emitterEvents
    /\ UNCHANGED <<engineVars, calcVars, appVars, serverVars, exportVars, emitCount>>

\* forEach is over and emit returns; when it was called by the callback of a
\* wrapper, the callback returns too and the wrapper calls this.off
EmitReturns ==
    /\ callStack # <<>>
    /\ LET frame == callStack[Len(callStack)]
           below == SubSeq(callStack, 1, Len(callStack) - 1)
       IN  /\ frame.kind = "emit"
           /\ frame.index > Len(frame.listeners)
           /\ IF below # <<>> /\ below[Len(below)].kind = "wrapper"
              THEN /\ callStack' = SubSeq(below, 1, Len(below) - 1)
                   /\ emitterEvents' = Off(emitterEvents, below[Len(below)].id)
              ELSE /\ callStack' = below
                   /\ UNCHANGED emitterEvents
    /\ UNCHANGED <<engineVars, calcVars, appVars, serverVars, exportVars, invocations,
                   emitCount>>

NextEmitter ==
    \/ Register
    \/ Unsubscribe
    \/ Emit
    \/ CallListener
    \/ EmitReturns

SpecEmitter == InitEmitter /\ [][NextEmitter]_vars

IsRegistered(id) == \E i \in 1..Len(emitterEvents) : emitterEvents[i] = id

\* C30: a listener registered with once is invoked at most once over any
\* sequence of emit calls, also when its callback throws and when its
\* callback emits the same event again, and once it has been invoked and
\* the emit calls have returned it is no longer registered
OnceListenerInvokedAtMostOnce ==
    \A id \in 1..Len(invocations) :
        invocations[id].once =>
            /\ invocations[id].count <= 1
            /\ (invocations[id].count >= 1 /\ callStack = <<>>) => ~IsRegistered(id)

====
